---- MODULE Spec2Model ----
(***************************************************************************)
(* Dependency-graph metrics and split optimizer of nx-tools.               *)
(*                                                                         *)
(* The store is the six relations of the SQLite schema.  The operations    *)
(* are the read-side queries of ProjectDatabase / ProjectViewDb: the       *)
(* batched breadth-first traversal of project_dependencies, the windowed   *)
(* project metrics, the estimated load of a file list and the hill         *)
(* climbing file split.                                                    *)
(***************************************************************************)
EXTENDS Integers, Sequences, FiniteSets, TLC

VARIABLES
  \* ---- the store (packages/analyze/src/lib/db.ts, initializeDatabase) ----
  projects,              \* rows of projects: [id, name]
  project_files,         \* rows of project_files: [project_id, file_path]
  project_dependencies,  \* rows: [source_project, target_project]
  file_dependencies,     \* rows: [file_path, depends_on_project, depends_on_file]
  git_commits,           \* rows of git_commits: [id, date]
  touched_files,         \* rows of touched_files: [commit_id, file_path]
  \* ---- one call of getProjectDependents / getProjectDependencies ----
  pc,                    \* position of the running call
  direction,             \* "dependents" or "dependencies"
  projectName,           \* the start project of the traversal
  batchSize,             \* size of one frontier batch (50 in the source)
  queue,                 \* const queue: string[]
  visited,               \* const visited = new Set<string>()
  result,                \* const result = new Set<string>()
  rows,                  \* rows of the last query not yet seen by the for loop
  \* ---- one call of getAllProjectsMetrics ----
  commitCount,           \* the window size N
  metrics,               \* the returned ProjectMetrics[]
  \* ---- one call of getEstimatedLoad ----
  filePaths,             \* the file list passed to the call
  estimatedLoad,         \* the returned number
  \* ---- one call of getSuggestedFileSplit ----
  filesWithoutDeps,      \* const filesWithoutDeps: string[]
  groupA,                \* const groupA: string[]
  groupB,                \* const groupB: string[]
  loadA,                 \* let loadA
  loadB,                 \* let loadB
  totalLoad,             \* let totalLoad
  initialTotalLoad,      \* totalLoad of the initial random split (history)
  moves,                 \* number of moves applied so far (history)
  suggestedSplit,        \* the returned [string[], string[]]
  \* ---- the connection (sqlite3.Database) ----
  lastInsertRowid,       \* rowid of the last successful INSERT: this.lastID
  sqlite_sequence,       \* AUTOINCREMENT counters of git_commits, touched_files
  \* ---- one call of syncGitCommits ----
  log,                   \* gitLogOutput, as a list of lines
  lines,                 \* the lines the for loop has not processed yet
  currentCommit,         \* let currentCommit: <<>> for null, else <<commit>>
  touchedFiles,          \* const touchedFiles: Array<{filePath, changeType}>
  commitId,              \* the last insertCommit call: <<>> or <<[hash, id]>>
  ingestions,            \* completed ingestions of the log (history)
  firstCommits,          \* git_commits after the first ingestion (history)
  firstTouched,          \* touched_files after the first ingestion (history)
  \* ---- the writer connection and one call of a dependency sync ----
  \* project_dependencies and file_dependencies above are the committed
  \* content of the database file, which every other connection reads
  txn,                   \* <<>>, or <<the two relations as the open transaction sees them>>
  wpc,                   \* position of the running sync
  syncOp,                \* "project" or "file": which sync was called last
  toInsert,              \* rows whose stmt.run has not executed yet (pending)
  newRows,               \* the dependencies / records the sync was called with
  preSync,               \* the committed relations when the sync was called (history)
  syncs,                 \* number of sync calls so far (history)
  committedStores,       \* every committed value of project_dependencies so far (history)
  \* ---- one metrics / load call, its lookups running in parallel ----
  parOp,                 \* "none", "metrics", "load" or "candidate"
  locals,                \* the locals the call holds across the Promise.all
  lookups,               \* project -> queue, visited, result, state of its lookup
  transitiveDependents,  \* const transitiveDependents = new Map<string, string[]>()
  order,                 \* the order the then-callbacks ran in (history)
  failedLookups,         \* projects whose lookup hit a failing query (history)
  candidate,             \* <<newGroupA, newGroupB>> of a candidate move
  settled,               \* index -> value of the resolved calls of the pair
  \* ---- the project methods and one invocation of runCLI ----
  foreign_keys,          \* whether the connection enforces foreign keys
  projects_seq,          \* AUTOINCREMENT counter of projects
  returned,              \* <<>>, or <<the last call of a project method and its outcome>>
  cli                    \* the invocation of runCLI: arguments, position, outcome

storeVars == <<projects, project_files, project_dependencies,
               file_dependencies, git_commits, touched_files>>
bfsVars == <<pc, direction, projectName, batchSize, queue, visited, result, rows>>
metricVars == <<commitCount, metrics>>
loadVars == <<filePaths, estimatedLoad>>
splitVars == <<filesWithoutDeps, groupA, groupB, loadA, loadB, totalLoad,
               initialTotalLoad, moves, suggestedSplit>>
connVars == <<lastInsertRowid, sqlite_sequence>>
ingestVars == <<log, lines, currentCommit, touchedFiles, commitId, ingestions,
                firstCommits, firstTouched>>
txnVars == <<txn, wpc, syncOp, toInsert, newRows, preSync, syncs, committedStores>>
syncVars == <<connVars, ingestVars, txnVars>>
\* parallel lookups of one metrics / load call
parVars == <<parOp, locals, lookups, transitiveDependents, order, failedLookups,
             candidate, settled>>
\* the project methods and the command line
crudVars == <<foreign_keys, projects_seq, returned, cli>>
extVars == <<parVars, crudVars>>
vars == <<storeVars, bfsVars, metricVars, loadVars, splitVars, syncVars, extVars>>

----------------------------------------------------------------------------
(* Universes of the bounded model *)

ProjectNames == {"core", "mid", "app"}
ProjectId(n) == CASE n = "core" -> 1 [] n = "mid" -> 2 [] n = "app" -> 3
Files == {"a.ts", "b.ts", "c.ts"}

\* at most this many rows of project_dependencies in the traversal model
MaxEdges == 4

\* frontier batch of the source: queue.splice(0, 50)
BatchSize == 50
\* batch sizes the traversal is run with: the source's and two that split
\* a frontier of the bounded graphs into several queries
BatchSizes == {1, 2, BatchSize}

Min(a, b) == IF a < b THEN a ELSE b

Edge(s, t) == [source_project |-> s, target_project |-> t]
AllEdges == [source_project : ProjectNames, target_project : ProjectNames]

\* a set as a sequence, in the order the engine happens to deliver it
RECURSIVE SetToSeq(_)
SetToSeq(S) ==
  IF S = {} THEN <<>>
  ELSE LET x == CHOOSE y \in S : TRUE IN <<x>> \o SetToSeq(S \ {x})

----------------------------------------------------------------------------
(* Transitive closure resolver: getProjectDependents / getProjectDependencies *)

\* const queue = [projectName]; visited.add(projectName)
InitVisited_NotSeeded(p) == {}
InitVisited(p) == {p}

\* queue.splice(0, n): the removed batch and what stays in the queue
Splice_NoRemove(q, n) ==
  [batch |-> SubSeq(q, 1, Min(n, Len(q))), rest |-> q]
Splice(q, n) ==
  [batch |-> SubSeq(q, 1, Min(n, Len(q))),
   rest  |-> SubSeq(q, Min(n, Len(q)) + 1, Len(q))]

SeqRange(s) == {s[i] : i \in 1..Len(s)}

\* SELECT source_project FROM project_dependencies WHERE target_project IN (batch)
\* SELECT target_project FROM project_dependencies WHERE source_project IN (batch)
\* one row per matching edge
MatchRows(dir, edges, batch) ==
  IF dir = "dependents"
  THEN {e \in edges : e.target_project \in SeqRange(batch)}
  ELSE {e \in edges : e.source_project \in SeqRange(batch)}

\* the column the query selects
RowProject(dir, r) ==
  IF dir = "dependents" THEN r.source_project ELSE r.target_project

\* entry of getProjectDependents(p) / getProjectDependencies(p)
BfsCall(dir, p, b) ==
  /\ pc = "idle"
  /\ direction' = dir
  /\ projectName' = p
  /\ batchSize' = b
  /\ queue' = <<p>>
  /\ visited' = InitVisited(p)
  /\ result' = {}
  /\ rows' = {}
  /\ pc' = "loop"
  /\ UNCHANGED <<storeVars, syncVars, extVars, metricVars, loadVars, splitVars>>

getProjectDependents ==
  \E p \in ProjectNames, b \in BatchSizes : BfsCall("dependents", p, b)

getProjectDependencies ==
  \E p \in ProjectNames, b \in BatchSizes : BfsCall("dependencies", p, b)

\* while (queue.length > 0) { batch = queue.splice(0, 50); rows = await query }
BfsQuery ==
  /\ pc = "loop"
  /\ queue # <<>>
  /\ LET sp == Splice(queue, batchSize)
         rs == MatchRows(direction, project_dependencies, sp.batch)
     IN /\ queue' = sp.rest
        /\ rows' = rs
        /\ pc' = IF rs = {} THEN "loop" ELSE "rows"
  /\ UNCHANGED <<storeVars, syncVars, extVars, metricVars, loadVars, splitVars, direction, projectName, batchSize, visited, result>>

\* for (const r of rows): the rows arrive in an order the store chooses
BfsRow ==
  /\ pc = "rows"
  /\ \E r \in rows :
       LET s == RowProject(direction, r) IN
         /\ IF s \notin visited
            THEN /\ visited' = visited \cup {s}
                 /\ result' = result \cup {s}
                 /\ queue' = Append(queue, s)
            ELSE UNCHANGED <<visited, result, queue>>
         /\ rows' = rows \ {r}
         /\ pc' = IF rows \ {r} = {} THEN "loop" ELSE "rows"
  /\ UNCHANGED <<storeVars, syncVars, extVars, metricVars, loadVars, splitVars, direction, projectName, batchSize>>

\* return Array.from(result)
BfsReturn ==
  /\ pc = "loop"
  /\ queue = <<>>
  /\ pc' = "done"
  /\ UNCHANGED <<storeVars, syncVars, extVars, metricVars, loadVars, splitVars, direction, projectName, batchSize, queue, visited,
                 result, rows>>

BfsIdle ==
  /\ pc = "idle"
  /\ direction = "dependents"
  /\ projectName = "core"
  /\ batchSize = BatchSize
  /\ queue = <<>>
  /\ visited = {}
  /\ result = {}
  /\ rows = {}

MetricsIdle ==
  /\ commitCount = 0
  /\ metrics = <<>>

LoadIdle ==
  /\ filePaths = <<>>
  /\ estimatedLoad = 0

\* a fresh connection and no ingestion running
SyncIdle ==
  /\ lastInsertRowid = 0
  /\ sqlite_sequence = [git_commits |-> 0, touched_files |-> 0]
  /\ log = <<>>
  /\ lines = <<>>
  /\ currentCommit = <<>>
  /\ touchedFiles = <<>>
  /\ commitId = <<>>
  /\ ingestions = 0
  /\ firstCommits = {}
  /\ firstTouched = {}
  /\ txn = <<>>
  /\ wpc = "idle"
  /\ syncOp = "none"
  /\ toInsert = {}
  /\ newRows = {}
  /\ preSync = [project_dependencies |-> {}, file_dependencies |-> {}]
  /\ syncs = 0
  /\ committedStores = {project_dependencies}

\* no metrics / load call with parallel lookups in progress
ParIdle ==
  /\ parOp = "none"
  /\ locals = <<>>
  /\ lookups = <<>>
  /\ transitiveDependents = <<>>
  /\ order = <<>>
  /\ failedLookups = {}
  /\ candidate = <<>>
  /\ settled = <<>>

\* runCLI before it is called
CliIdle ==
  [args |-> <<>>, phase |-> "idle", connection |-> "none", exitCode |-> 0,
   message |-> "", validation |-> FALSE, changes |-> 0, absent |-> FALSE]

\* no project method called yet, no command line run
CrudIdle ==
  /\ foreign_keys = FALSE
  /\ projects_seq = 0
  /\ returned = <<>>
  /\ cli = CliIdle

ExtIdle == ParIdle /\ CrudIdle

SplitIdle ==
  /\ filesWithoutDeps = <<>>
  /\ groupA = <<>>
  /\ groupB = <<>>
  /\ loadA = 0
  /\ loadB = 0
  /\ totalLoad = 0
  /\ initialTotalLoad = 0
  /\ moves = 0
  /\ suggestedSplit = <<>>

InitBFS ==
  /\ projects = {[id |-> ProjectId(n), name |-> n] : n \in ProjectNames}
  /\ project_files = {}
  /\ project_dependencies \in {E \in SUBSET AllEdges : Cardinality(E) <= MaxEdges}
  /\ file_dependencies = {}
  /\ git_commits = {}
  /\ touched_files = {}
  /\ BfsIdle
  /\ MetricsIdle
  /\ LoadIdle
  /\ SplitIdle
  /\ SyncIdle
  /\ ExtIdle

NextBFS ==
  \/ getProjectDependents
  \/ getProjectDependencies
  \/ BfsQuery
  \/ BfsRow
  \/ BfsReturn

SpecBFS == InitBFS /\ [][NextBFS]_vars

\* the event loop runs every continuation of a pending call
FairSpecBFS == SpecBFS /\ WF_vars(BfsQuery \/ BfsRow \/ BfsReturn)

----------------------------------------------------------------------------
(* Traversal as the callers use it: one awaited call, returning a set *)

\* the while loop of getProjectDependents / getProjectDependencies, run to
\* its end with the source's batch size
RECURSIVE BfsRun(_, _, _, _, _)
BfsRun(dir, edges, q, vis, res) ==
  IF q = <<>> THEN res
  ELSE LET sp == Splice(q, BatchSize)
           rs == MatchRows(dir, edges, sp.batch)
           new == {RowProject(dir, r) : r \in rs} \ vis
       IN BfsRun(dir, edges, sp.rest \o SetToSeq(new), vis \cup new, res \cup new)

\* await this.getProjectDependents(p)
ProjectDependents(edges, p) ==
  BfsRun("dependents", edges, <<p>>, InitVisited(p), {})

----------------------------------------------------------------------------
(* Metrics engine: getAllProjectsMetrics *)

\* at most this many rows of each relation in the metrics model
MaxDeps == 2
MaxTouched == 2
\* largest window size the metrics are asked for
MaxWindow == 2

\* ORDER BY date DESC: the latest commit first, ties in the engine's order
RECURSIVE OrderByDateDesc(_)
OrderByDateDesc(commits) ==
  IF commits = {} THEN <<>>
  ELSE LET c == CHOOSE x \in commits : \A y \in commits : y.date <= x.date
       IN <<c>> \o OrderByDateDesc(commits \ {c})

\* LIMIT ?
Limit(s, n) == SubSeq(s, 1, Min(n, Len(s)))

\* SELECT id FROM git_commits ORDER BY date DESC LIMIT ?
RecentCommitIds(n) ==
  LET s == Limit(OrderByDateDesc(git_commits), n)
  IN [i \in 1..Len(s) |-> s[i].id]

\* SELECT * FROM projects ORDER BY name
getAllProjects == SetToSeq(projects)

\* SELECT DISTINCT: the first occurrence of every row
RECURSIVE Distinct(_)
Distinct_KeepAll(s) == s
Distinct(s) ==
  IF s = <<>> THEN <<>>
  ELSE LET rest == Distinct(SubSeq(s, 1, Len(s) - 1))
       IN IF s[Len(s)] \in SeqRange(rest) THEN rest ELSE Append(rest, s[Len(s)])

\* FROM touched_files tf JOIN project_files pf ON pf.file_path = tf.file_path
\*   JOIN projects p ON p.id = pf.project_id WHERE tf.commit_id IN (commitIds)
TouchedJoin(commitIds) ==
  {j \in [tf : touched_files, pf : project_files, p : projects] :
     /\ j.pf.file_path = j.tf.file_path
     /\ j.p.id = j.pf.project_id
     /\ j.tf.commit_id \in SeqRange(commitIds)}

\* SELECT DISTINCT tf.commit_id, p.name as project_name, p.id as project_id
TouchedRows(commitIds) ==
  LET js == SetToSeq(TouchedJoin(commitIds))
  IN Distinct([i \in 1..Len(js) |->
                 [commit_id |-> js[i].tf.commit_id,
                  project_name |-> js[i].p.name,
                  project_id |-> js[i].p.id]])

\* touchedByCommit: commit_id -> Set of directly touched project names
TouchedByCommit(trows) ==
  [c \in {trows[i].commit_id : i \in 1..Len(trows)} |->
     {trows[i].project_name : i \in {k \in 1..Len(trows) : trows[k].commit_id = c}}]

\* touchCountMap.get(name) || 0: one increment per row of the project
TouchCount(trows, name) ==
  Cardinality({i \in 1..Len(trows) : trows[i].project_name = name})

\* projectsToCompute
ProjectsToCompute(trows) == {trows[i].project_name : i \in 1..Len(trows)}

\* transitiveDependents: filled for the projects of projectsToCompute only
TransitiveDependents(trows) ==
  [p \in ProjectsToCompute(trows) |-> ProjectDependents(project_dependencies, p)]

\* affected set of one commit: its touched projects and their dependents
Affected_DependentsOnly(touched, tdeps) ==
  UNION {IF t \in DOMAIN tdeps THEN tdeps[t] ELSE {} : t \in touched}
Affected(touched, tdeps) ==
  UNION {{t} \cup (IF t \in DOMAIN tdeps THEN tdeps[t] ELSE {}) : t \in touched}

\* affectedCounts.get(name) || 0
AffectedCount(tbc, tdeps, name) ==
  Cardinality({c \in DOMAIN tbc : name \in Affected(tbc[c], tdeps)})

\* transitiveDependents.get(p.name)?.length || 0
DependentCount(tdeps, name) ==
  IF name \in DOMAIN tdeps THEN Cardinality(tdeps[name]) ELSE 0

\* the value getAllProjectsMetrics(n) resolves to
AllProjectsMetrics(n) ==
  LET ps == getAllProjects
      commitIds == RecentCommitIds(n)
  IN IF Len(commitIds) = 0
     THEN [i \in 1..Len(ps) |->
             [name |-> ps[i].name, touched_count |-> 0, load |-> 0,
              affected_count |-> 0]]
     ELSE LET trows == TouchedRows(commitIds)
              tbc == TouchedByCommit(trows)
              tdeps == TransitiveDependents(trows)
          IN [i \in 1..Len(ps) |->
                [name |-> ps[i].name,
                 touched_count |-> TouchCount(trows, ps[i].name),
                 dependent_count |-> DependentCount(tdeps, ps[i].name),
                 load |-> TouchCount(trows, ps[i].name)
                            * DependentCount(tdeps, ps[i].name),
                 affected_count |-> AffectedCount(tbc, tdeps, ps[i].name)]]

getAllProjectsMetrics ==
  /\ pc = "idle"
  /\ \E n \in 1..MaxWindow :
       /\ commitCount' = n
       /\ metrics' = AllProjectsMetrics(n)
  /\ pc' = "done"
  /\ UNCHANGED <<storeVars, syncVars, extVars, loadVars, splitVars, direction, projectName,
                 batchSize, queue, visited, result, rows>>

\* memberships the metrics model draws from: core owns a.ts and b.ts, b.ts
\* is also declared in mid, app owns c.ts
Membership(n, f) == [project_id |-> ProjectId(n), file_path |-> f]
MembershipUniverse ==
  {Membership("core", "a.ts"), Membership("core", "b.ts"),
   Membership("mid", "b.ts"), Membership("app", "c.ts")}

\* numbers of commits the metrics model is run with
CommitCounts == {0, 1, 2}

\* commits 1..k, each with a date (the earliest is 1, ties allowed) and at
\* least one touched file, as syncGitCommits stores them
InitCommits ==
  \E k \in CommitCounts :
    /\ git_commits \in
         {{[id |-> i, date |-> d[i]] : i \in 1..k} :
            d \in {e \in [1..k -> 1..k] : k = 0 \/ \E i \in 1..k : e[i] = 1}}
    /\ touched_files \in
         {T \in SUBSET [commit_id : 1..k, file_path : Files] :
            /\ Cardinality(T) <= MaxTouched
            /\ \A i \in 1..k : \E t \in T : t.commit_id = i}

InitMetrics ==
  /\ projects = {[id |-> ProjectId(n), name |-> n] : n \in ProjectNames}
  /\ project_files \in SUBSET MembershipUniverse
  /\ project_dependencies \in {E \in SUBSET AllEdges : Cardinality(E) <= MaxDeps}
  /\ file_dependencies = {}
  /\ InitCommits
  /\ BfsIdle
  /\ MetricsIdle
  /\ LoadIdle
  /\ SplitIdle
  /\ SyncIdle
  /\ ExtIdle

NextMetrics == getAllProjectsMetrics

SpecMetrics == InitMetrics /\ [][NextMetrics]_vars

----------------------------------------------------------------------------
(* Estimated load of a file list: ProjectViewDb.getEstimatedLoad *)

\* longest file list (duplicates allowed) the load is asked for
MaxListLen == 2

\* SELECT COUNT(DISTINCT tf.commit_id) FROM touched_files tf
\*   WHERE tf.commit_id IN (SELECT id FROM git_commits ORDER BY date DESC LIMIT ?)
\*     AND tf.file_path IN (filePaths)
FilesTouchedCount(fps, n) ==
  IF Len(fps) = 0 THEN 0
  ELSE Cardinality({tf.commit_id : tf \in
         {t \in touched_files :
            /\ t.commit_id \in SeqRange(RecentCommitIds(n))
            /\ t.file_path \in SeqRange(fps)}})

\* FROM file_dependencies fd JOIN project_files pf ON pf.file_path = fd.file_path
\*   JOIN projects p ON p.id = pf.project_id WHERE fd.depends_on_file IN (filePaths)
DependencyJoin(fps) ==
  {j \in [fd : file_dependencies, pf : project_files, p : projects] :
     /\ j.pf.file_path = j.fd.file_path
     /\ j.p.id = j.pf.project_id
     /\ j.fd.depends_on_file \in SeqRange(fps)}

\* getProjectDependencyMapForFiles: every file of the list mapped to the
\* projects owning a file that imports it, each project once
ProjectDependencyMapForFiles(fps) ==
  [f \in SeqRange(fps) |->
     {j.p.name : j \in {k \in DependencyJoin(fps) : k.fd.depends_on_file = f}}]

\* directDependents: every project of Object.values(dependencyMap)
DirectDependents(depMap) == UNION {depMap[f] : f \in DOMAIN depMap}

\* allDependents = new Set(directDependents), then every transitive dependent
AllDependents_TransitiveOnly(direct, trans) == UNION {trans[p] : p \in DOMAIN trans}
AllDependents(direct, trans) == direct \cup UNION {trans[p] : p \in DOMAIN trans}

\* the value getEstimatedLoad(filePaths, commitCount) resolves to
EstimatedLoad(fps, n) ==
  IF Len(fps) = 0 THEN 0
  ELSE LET touchCount == FilesTouchedCount(fps, n)
           direct == DirectDependents(ProjectDependencyMapForFiles(fps))
       IN IF Cardinality(direct) = 0 THEN 0
          ELSE LET trans == [p \in direct |->
                               ProjectDependents(project_dependencies, p)]
               IN touchCount * Cardinality(AllDependents(direct, trans))

\* the files of the load and split models, in the order of ORDER BY file_path
FileOrder == <<"a.ts", "b.ts", "c.ts", "d.ts">>
SplitFiles == SeqRange(FileOrder)

\* file lists of at most n entries
ListsUpTo(n) == UNION {[1..k -> SplitFiles] : k \in 0..n}

getEstimatedLoad ==
  /\ pc = "idle"
  /\ \E fps \in ListsUpTo(MaxListLen), n \in 1..MaxWindow :
       /\ filePaths' = fps
       /\ commitCount' = n
       /\ estimatedLoad' = EstimatedLoad(fps, n)
  /\ pc' = "done"
  /\ UNCHANGED <<storeVars, syncVars, extVars, metrics, splitVars, direction, projectName,
                 batchSize, queue, visited, result, rows>>

FileDep(f, p, g) == [file_path |-> f, depends_on_project |-> p, depends_on_file |-> g]
\* imports the load model draws from: c.ts imports a.ts, a.ts imports b.ts,
\* b.ts imports c.ts and d.ts
FileDepUniverse ==
  {FileDep("c.ts", "core", "a.ts"), FileDep("a.ts", "mid", "b.ts"),
   FileDep("b.ts", "app", "c.ts"), FileDep("b.ts", "app", "d.ts")}

\* memberships of the load model: app also owns d.ts, and b.ts is declared
\* in mid only or in core and mid
LoadMemberships ==
  {MembershipUniverse \cup {Membership("app", "d.ts")},
   (MembershipUniverse \ {Membership("core", "b.ts")})
     \cup {Membership("app", "d.ts")}}

\* project edges the load model draws from: mid -> core -> app
DepUniverse == {Edge("mid", "core"), Edge("core", "app")}

\* touched files the load model draws from: commit 1 (the latest) touches
\* a.ts and/or b.ts, commit 2 touches c.ts and/or d.ts
Touch(c, f) == [commit_id |-> c, file_path |-> f]
TouchUniverse ==
  {Touch(1, "a.ts"), Touch(1, "b.ts"), Touch(2, "c.ts"), Touch(2, "d.ts")}

InitLoadStore ==
  /\ projects = {[id |-> ProjectId(n), name |-> n] : n \in ProjectNames}
  /\ project_files \in LoadMemberships
  /\ project_dependencies \in SUBSET DepUniverse
  /\ file_dependencies \in SUBSET FileDepUniverse
  /\ git_commits = {[id |-> 1, date |-> 2], [id |-> 2, date |-> 1]}
  /\ touched_files \in
       {T \in SUBSET TouchUniverse : \A c \in git_commits :
                                       \E t \in T : t.commit_id = c.id}

InitLoad ==
  /\ InitLoadStore
  /\ BfsIdle
  /\ MetricsIdle
  /\ LoadIdle
  /\ SplitIdle
  /\ SyncIdle
  /\ ExtIdle

NextLoad == getEstimatedLoad

SpecLoad == InitLoad /\ [][NextLoad]_vars

----------------------------------------------------------------------------
(* Split optimizer: ProjectViewDb.getSuggestedFileSplit *)

\* commitCount = 100, the default window of getSuggestedFileSplit
DefaultCommitCount == 100

\* array.filter(pred) for the predicate f !== file
RECURSIVE Without(_, _)
Without(s, file) ==
  IF s = <<>> THEN <<>>
  ELSE IF s[1] = file THEN Without(Tail(s), file)
       ELSE <<s[1]>> \o Without(Tail(s), file)

\* the files of fps whose dependencyMap entry is non-empty (keep = TRUE) or
\* empty (keep = FALSE), in the order of fps
RECURSIVE Partition(_, _, _)
Partition(fps, depMap, keep) ==
  IF fps = <<>> THEN <<>>
  ELSE LET has == Cardinality(depMap[fps[1]]) > 0
           rest == Partition(Tail(fps), depMap, keep)
       IN IF has = keep THEN <<fps[1]>> \o rest ELSE rest

\* for (const fp of filesWithDeps) push to groupA if pick[i], else to groupB
RECURSIVE Assign(_, _, _, _)
Assign_Both(fs, pick, i, toA) == fs
Assign(fs, pick, i, toA) ==
  IF i > Len(fs) THEN <<>>
  ELSE IF pick[i] = toA THEN <<fs[i]>> \o Assign(fs, pick, i + 1, toA)
       ELSE Assign(fs, pick, i + 1, toA)

\* const delta = candidateTotal - totalLoad
Delta_OffByOne(candidateTotal, total) == candidateTotal - total - 1
Delta(candidateTotal, total) == candidateTotal - total

\* the candidate of moving file out of group A (fromA) or out of group B
Candidate(fromA, file, gA, gB, n) ==
  LET newGroupA == IF fromA THEN Without(gA, file) ELSE Append(gA, file)
      newGroupB == IF fromA THEN Append(gB, file) ELSE Without(gB, file)
  IN [fromA |-> fromA, file |-> file,
      newGroupA |-> newGroupA, newGroupB |-> newGroupB,
      candidateLoadA |-> EstimatedLoad(newGroupA, n),
      candidateLoadB |-> EstimatedLoad(newGroupB, n)]

NoMove == [found |-> FALSE, bestDelta |-> 0]

\* one for loop over a group: if (delta < bestDelta) { bestDelta = delta; bestMove = ... }
RECURSIVE ScanGroup(_, _, _, _, _, _, _, _)
ScanGroup(fromA, g, i, gA, gB, total, n, best) ==
  IF i > Len(g) THEN best
  ELSE LET cand == Candidate(fromA, g[i], gA, gB, n)
           delta == Delta(cand.candidateLoadA + cand.candidateLoadB, total)
           next == IF delta < best.bestDelta
                   THEN [found |-> TRUE, bestDelta |-> delta, move |-> cand]
                   ELSE best
       IN ScanGroup(fromA, g, i + 1, gA, gB, total, n, next)

\* bestMove / bestDelta after the loop over groupA and the loop over groupB
BestMove(gA, gB, total, n) ==
  ScanGroup(FALSE, gB, 1, gA, gB, total, n,
            ScanGroup(TRUE, gA, 1, gA, gB, total, n, NoMove))

\* if (bestMove && bestDelta < 0)
Improves(best) == best.found /\ best.bestDelta < 0

\* totalLoad = loadA + loadB, after the move is applied
AppliedTotal_Stale(move, total) == total
AppliedTotal(move, total) == move.candidateLoadA + move.candidateLoadB

\* the files of S in the order of FileOrder
SortedList(S) == SelectSeq(FileOrder, LAMBDA f : f \in S)

\* inputs of the split: the files of a project as getProjectFiles lists them
\* (distinct, ordered by path), for every set of files; the full list in
\* reverse order; a list that names a file twice
SplitInputs ==
  {SortedList(S) : S \in SUBSET SplitFiles}
    \cup {<<"d.ts", "c.ts", "b.ts", "a.ts">>, <<"a.ts", "b.ts", "a.ts">>}

\* entry of getSuggestedFileSplit up to the while loop; pick is the outcome
\* of the Math.random() < 0.5 draws
getSuggestedFileSplit ==
  /\ pc = "idle"
  /\ \E fps \in SplitInputs :
       LET n == DefaultCommitCount
           depMap == ProjectDependencyMapForFiles(fps)
           withDeps == Partition(fps, depMap, TRUE)
           withoutDeps == Partition(fps, depMap, FALSE)
       IN /\ filePaths' = fps
          /\ commitCount' = n
          /\ IF Len(fps) = 0
             THEN /\ suggestedSplit' = <<<<>>, <<>>>>
                  /\ pc' = "done"
                  /\ UNCHANGED <<filesWithoutDeps, groupA, groupB, loadA, loadB,
                                 totalLoad, initialTotalLoad>>
             ELSE IF Len(withDeps) = 0
             THEN /\ suggestedSplit' = <<fps, <<>>>>
                  /\ filesWithoutDeps' = withoutDeps
                  /\ pc' = "done"
                  /\ UNCHANGED <<groupA, groupB, loadA, loadB, totalLoad,
                                 initialTotalLoad>>
             ELSE \E pick \in [1..Len(withDeps) -> BOOLEAN] :
                    LET gA == Assign(withDeps, pick, 1, TRUE)
                        gB == Assign(withDeps, pick, 1, FALSE)
                        lA == EstimatedLoad(gA, n)
                        lB == EstimatedLoad(gB, n)
                    IN /\ filesWithoutDeps' = withoutDeps
                       /\ groupA' = gA
                       /\ groupB' = gB
                       /\ loadA' = lA
                       /\ loadB' = lB
                       /\ totalLoad' = lA + lB
                       /\ initialTotalLoad' = lA + lB
                       /\ pc' = "search"
                       /\ UNCHANGED suggestedSplit
  /\ UNCHANGED <<storeVars, syncVars, extVars, metrics, estimatedLoad, moves, direction,
                 projectName, batchSize, queue, visited, result, rows>>

\* one pass of the while loop that finds an improving move and applies it
SplitMove ==
  /\ pc = "search"
  /\ LET best == BestMove(groupA, groupB, totalLoad, commitCount)
     IN /\ Improves(best)
        /\ groupA' = best.move.newGroupA
        /\ groupB' = best.move.newGroupB
        /\ loadA' = best.move.candidateLoadA
        /\ loadB' = best.move.candidateLoadB
        /\ totalLoad' = AppliedTotal(best.move, totalLoad)
        /\ moves' = moves + 1
  /\ UNCHANGED <<storeVars, syncVars, extVars, bfsVars, metricVars, loadVars, filesWithoutDeps,
                 initialTotalLoad, suggestedSplit>>

\* return [[...groupA, ...filesWithoutDeps], groupB.slice()]
ReturnedSplit_WithoutDepsLast(gA, gB, without) == <<gA, gB \o without>>
ReturnedSplit(gA, gB, without) == <<gA \o without, gB>>

\* the pass that finds no improving move, and the return
SplitReturn ==
  /\ pc = "search"
  /\ ~Improves(BestMove(groupA, groupB, totalLoad, commitCount))
  /\ suggestedSplit' = ReturnedSplit(groupA, groupB, filesWithoutDeps)
  /\ pc' = "done"
  /\ UNCHANGED <<storeVars, syncVars, extVars, direction, projectName, batchSize, queue, visited,
                 result, rows, metricVars, loadVars, filesWithoutDeps, groupA,
                 groupB, loadA, loadB, totalLoad, initialTotalLoad, moves>>

InitSplit ==
  /\ InitLoadStore
  /\ BfsIdle
  /\ MetricsIdle
  /\ LoadIdle
  /\ SplitIdle
  /\ SyncIdle
  /\ ExtIdle

NextSplit ==
  \/ getSuggestedFileSplit
  \/ SplitMove
  \/ SplitReturn

SpecSplit == InitSplit /\ [][NextSplit]_vars

----------------------------------------------------------------------------
(* Commit ingestor: ProjectDatabase.syncGitCommits                         *)
(* A line of the log is a list of tokens: a word, or one of the characters *)
(* the parser looks at ("|", a blank, a tab).                              *)

\* longest log, in lines
MaxLogLen == 4
\* how often the same log is ingested
MaxIngestions == 2

Whitespace == {" ", "\t"}

\* line.includes(tok)
Includes(line, tok) == \E i \in 1..Len(line) : line[i] = tok

\* line.split(sep)
RECURSIVE Split(_, _)
Split(line, sep) ==
  IF ~Includes(line, sep) THEN <<line>>
  ELSE LET i == CHOOSE k \in 1..Len(line) :
                  line[k] = sep /\ \A j \in 1..(k - 1) : line[j] # sep
       IN <<SubSeq(line, 1, i - 1)>> \o Split(SubSeq(line, i + 1, Len(line)), sep)

\* text.trim()
RECURSIVE Trim(_)
Trim(text) ==
  IF text = <<>> THEN <<>>
  ELSE IF text[1] \in Whitespace THEN Trim(Tail(text))
  ELSE IF text[Len(text)] \in Whitespace THEN Trim(SubSeq(text, 1, Len(text) - 1))
  ELSE text

\* gitLogOutput.split('\n').filter((line) => line.trim())
NonBlankLines(text) == SelectSeq(text, LAMBDA line : Trim(line) # <<>>)

\* line.match(/^[AMDRT]\s+/)
IsChangeLine(line) ==
  /\ Len(line) >= 2
  /\ line[1] \in {"A", "M", "D", "R", "T"}
  /\ line[2] \in Whitespace

\* { filePath: line.substring(2).trim(), changeType: line.charAt(0) }
ParseChange(line) ==
  [filePath |-> Trim(SubSeq(line, 3, Len(line))), changeType |-> line[1]]

\* const [hash, author, date, message] = line.split('|'): a missing field is
\* undefined and its .trim() throws
HeaderThrows(line) == Len(Split(line, "|")) < 4

ParseHeader(line) ==
  LET f == Split(line, "|")
  IN [hash |-> Trim(f[1]), author |-> Trim(f[2]),
      date |-> Trim(f[3]), message |-> Trim(f[4])]

\* the store and connection state the inserts work on
Db == [git_commits |-> git_commits, touched_files |-> touched_files,
       sqlite_sequence |-> sqlite_sequence, lastInsertRowid |-> lastInsertRowid]

\* insertCommit: INSERT OR IGNORE, then this.lastID if it is positive, else
\* SELECT id FROM git_commits WHERE hash = ?
insertCommit(db, commit) ==
  IF \E r \in db.git_commits : r.hash = commit.hash
  THEN [db |-> db,
        id |-> IF db.lastInsertRowid > 0 THEN db.lastInsertRowid
               ELSE (CHOOSE r \in db.git_commits : r.hash = commit.hash).id]
  ELSE LET id == db.sqlite_sequence.git_commits + 1
       IN [db |-> [db EXCEPT
                     !.git_commits = @ \cup {[id |-> id, hash |-> commit.hash,
                                              date |-> commit.date]},
                     !.sqlite_sequence.git_commits = id,
                     !.lastInsertRowid = id],
           id |-> id]

\* insertTouchedFile: INSERT OR REPLACE on UNIQUE(commit_id, file_path)
insertTouchedFile(db, cid, filePath, changeType) ==
  LET id == db.sqlite_sequence.touched_files + 1
      old == {r \in db.touched_files : r.commit_id = cid /\ r.file_path = filePath}
  IN [db EXCEPT
        !.touched_files = (@ \ old) \cup
           {[id |-> id, commit_id |-> cid, file_path |-> filePath,
             change_type |-> changeType]},
        !.sqlite_sequence.touched_files = id,
        !.lastInsertRowid = id]

RECURSIVE InsertTouchedFiles(_, _, _)
InsertTouchedFiles(db, cid, files) ==
  IF files = <<>> THEN db
  ELSE InsertTouchedFiles(
         insertTouchedFile(db, cid, files[1].filePath, files[1].changeType),
         cid, Tail(files))

\* saveCommitWithFiles(commit, touchedFiles)
saveCommitWithFiles(db, commit, files) ==
  LET c == insertCommit(db, commit)
  IN [db |-> InsertTouchedFiles(c.db, c.id, files),
      call |-> <<[hash |-> commit.hash, id |-> c.id]>>]

\* if (currentCommit && touchedFiles.length > 0) saveCommitWithFiles(...)
Flushes(cur, files) == cur # <<>> /\ Len(files) > 0

\* the store after the flush of the accumulated commit, if there is one
Flush(db, cur, files) ==
  IF Flushes(cur, files) THEN saveCommitWithFiles(db, cur[1], files)
  ELSE [db |-> db, call |-> commitId]

\* writes a Db record back to the variables
Store(db) ==
  /\ git_commits' = db.git_commits
  /\ touched_files' = db.touched_files
  /\ sqlite_sequence' = db.sqlite_sequence
  /\ lastInsertRowid' = db.lastInsertRowid

\* the lines the ingest model draws its logs from: two commit headers, two
\* change lines, a line that is neither, a header cut after its second
\* field, and a blank line
HeaderLine(h, d) == <<h, "|", "an", "|", d, "|", "msg">>
LogLines ==
  {HeaderLine("h1", "d1"), HeaderLine("h2", "d2"),
   <<"M", "\t", "a.ts">>, <<"A", "\t", "b.ts">>,
   <<"junk">>, <<"h3", "|", "an">>, <<" ">>}

Logs == UNION {[1..k -> LogLines] : k \in 1..MaxLogLen}

\* entry of syncGitCommits up to the for loop; a second call reads the same log
syncGitCommits ==
  /\ pc \in {"idle", "synced"}
  /\ ingestions < MaxIngestions
  /\ \E text \in Logs :
       /\ ingestions > 0 => text = log
       /\ log' = text
       /\ lines' = NonBlankLines(text)
  /\ currentCommit' = <<>>
  /\ touchedFiles' = <<>>
  /\ pc' = "sync"
  /\ UNCHANGED <<storeVars, connVars, txnVars, commitId, ingestions, firstCommits,
                 firstTouched, direction, projectName, batchSize, queue,
                 visited, result, rows, metricVars, loadVars, splitVars, extVars>>

\* one iteration of for (const line of lines)
SyncLine ==
  /\ pc = "sync"
  /\ lines # <<>>
  /\ LET line == Head(lines) IN
       IF Includes(line, "|")
       THEN LET saved == Flush(Db, currentCommit, touchedFiles)
            IN /\ Store(saved.db)
               /\ commitId' = saved.call
               /\ touchedFiles' = IF Flushes(currentCommit, touchedFiles)
                                  THEN <<>> ELSE touchedFiles
               /\ IF HeaderThrows(line)
                  THEN /\ pc' = "failed"
                       /\ UNCHANGED <<currentCommit, lines>>
                  ELSE /\ currentCommit' = <<ParseHeader(line)>>
                       /\ lines' = Tail(lines)
                       /\ pc' = "sync"
       ELSE /\ touchedFiles' =
                 IF currentCommit # <<>> /\ IsChangeLine(line)
                 THEN Append(touchedFiles, ParseChange(line))
                 ELSE touchedFiles
            /\ lines' = Tail(lines)
            /\ UNCHANGED <<git_commits, touched_files, connVars, commitId,
                           currentCommit, pc>>
  /\ UNCHANGED <<projects, project_files, project_dependencies, txnVars,
                 file_dependencies, log, ingestions, firstCommits,
                 firstTouched, direction, projectName, batchSize, queue,
                 visited, result, rows, metricVars, loadVars, splitVars, extVars>>

\* after the loop: "Don't forget the last commit", and the return
SyncEnd ==
  /\ pc = "sync"
  /\ lines = <<>>
  /\ LET saved == Flush(Db, currentCommit, touchedFiles)
     IN /\ Store(saved.db)
        /\ commitId' = saved.call
        /\ firstCommits' = IF ingestions = 0 THEN saved.db.git_commits
                           ELSE firstCommits
        /\ firstTouched' = IF ingestions = 0 THEN saved.db.touched_files
                           ELSE firstTouched
  /\ ingestions' = ingestions + 1
  /\ pc' = "synced"
  /\ UNCHANGED <<projects, project_files, project_dependencies, txnVars,
                 file_dependencies, log, lines, currentCommit, touchedFiles,
                 direction, projectName, batchSize, queue, visited, result,
                 rows, metricVars, loadVars, splitVars, extVars>>

\* new ProjectDatabase(dbPath) on the same file: a new connection
Reconnect ==
  /\ pc = "synced"
  /\ lastInsertRowid # 0
  /\ lastInsertRowid' = 0
  /\ UNCHANGED <<storeVars, sqlite_sequence, ingestVars, txnVars, bfsVars,
                 metricVars, loadVars, splitVars, extVars>>

InitIngest ==
  /\ projects = {[id |-> ProjectId(n), name |-> n] : n \in ProjectNames}
  /\ project_files = {}
  /\ project_dependencies = {}
  /\ file_dependencies = {}
  /\ git_commits = {}
  /\ touched_files = {}
  /\ BfsIdle
  /\ MetricsIdle
  /\ LoadIdle
  /\ SplitIdle
  /\ SyncIdle
  /\ ExtIdle

NextIngest ==
  \/ syncGitCommits
  \/ SyncLine
  \/ SyncEnd
  \/ Reconnect

SpecIngest == InitIngest /\ [][NextIngest]_vars

----------------------------------------------------------------------------
(* Dependency syncs: syncAllProjectDependencies, syncFileDependenciesFromNx *)
(* Every statement is a step of its own (the source chains them through    *)
(* callbacks); ok = FALSE is the statement failing (SQLITE_BUSY, I/O).     *)

\* sync calls in one behaviour
MaxSyncs == 1

\* the relations as statements on the writer connection see them
View ==
  IF txn = <<>>
  THEN [project_dependencies |-> project_dependencies,
        file_dependencies |-> file_dependencies]
  ELSE txn[1]

\* project edges and file imports the sync model draws from
SyncEdges == {Edge("mid", "core"), Edge("app", "mid"), Edge("app", "core")}
SyncFileDeps == {FileDep("c.ts", "core", "a.ts"), FileDep("a.ts", "mid", "b.ts")}

\* a statement that failed changes no row; the engine either leaves the
\* transaction open (SQLITE_BUSY) or rolls it back itself (SQLITE_FULL, I/O)
FailedStatement ==
  /\ txn' \in {txn, <<>>}
  /\ UNCHANGED <<project_dependencies, file_dependencies, committedStores>>

\* return reject(err): the promise rejects; no ROLLBACK is issued
Rejected ==
  /\ wpc' = "rejected"
  /\ FailedStatement

\* INSERT OR IGNORE of one row: into the open transaction, or straight into
\* the database file when the connection is in autocommit mode
WriteRow(rel, row) ==
  IF txn # <<>>
  THEN /\ txn' = <<[txn[1] EXCEPT ![rel] = @ \cup {row}]>>
       /\ UNCHANGED <<project_dependencies, file_dependencies, committedStores>>
  ELSE /\ project_dependencies' =
            IF rel = "project_dependencies" THEN project_dependencies \cup {row}
            ELSE project_dependencies
       /\ file_dependencies' =
            IF rel = "file_dependencies" THEN file_dependencies \cup {row}
            ELSE file_dependencies
       /\ committedStores' = committedStores \cup {project_dependencies'}
       /\ txn' = txn

\* COMMIT: the open transaction becomes the content of the database file
Commit ==
  /\ project_dependencies' = txn[1].project_dependencies
  /\ file_dependencies' = txn[1].file_dependencies
  /\ committedStores' = committedStores \cup {txn[1].project_dependencies}
  /\ txn' = <<>>

\* what a sync step leaves alone
SyncFrame ==
  UNCHANGED <<projects, project_files, git_commits, touched_files, connVars,
              ingestVars, bfsVars, metricVars, loadVars, splitVars, extVars>>

\* "Persist dependencies to the database (replace existing)": the call, with
\* the dependencies it computed
syncAllProjectDependencies ==
  /\ wpc \in {"idle", "resolved", "rejected"}
  /\ toInsert = {}
  /\ syncs < MaxSyncs
  /\ \E dependencies \in SUBSET SyncEdges :
       /\ newRows' = dependencies
       /\ toInsert' = dependencies
  /\ syncOp' = "project"
  /\ preSync' = [project_dependencies |-> project_dependencies,
                 file_dependencies |-> file_dependencies]
  /\ syncs' = syncs + 1
  /\ wpc' = "begin"
  /\ UNCHANGED <<txn, project_dependencies, file_dependencies, committedStores>>
  /\ SyncFrame

\* this.db.run('BEGIN TRANSACTION', (err) => { if (err) return reject(err); ...
PdBegin ==
  /\ syncOp = "project"
  /\ wpc = "begin"
  /\ \E ok \in BOOLEAN :
       IF ok /\ txn = <<>>
       THEN /\ txn' = <<View>>
            /\ wpc' = "delete"
            /\ UNCHANGED <<toInsert, project_dependencies, file_dependencies,
                           committedStores>>
       ELSE /\ Rejected
            /\ toInsert' = {}
  /\ UNCHANGED <<syncOp, newRows, preSync, syncs>>
  /\ SyncFrame

\* this.db.run('DELETE FROM project_dependencies', (delErr) => { ...
PdDelete ==
  /\ syncOp = "project"
  /\ wpc = "delete"
  /\ \E ok \in BOOLEAN :
       IF ok
       THEN /\ txn' = <<[txn[1] EXCEPT !.project_dependencies = {}]>>
            /\ wpc' = IF toInsert = {} THEN "commit" ELSE "insert"
            /\ UNCHANGED <<toInsert, project_dependencies, file_dependencies,
                           committedStores>>
       ELSE /\ Rejected
            /\ toInsert' = {}
  /\ UNCHANGED <<syncOp, newRows, preSync, syncs>>
  /\ SyncFrame

\* the position after one more stmt.run has executed: pending-- reaches 0
\* only if no run failed
AfterRun(ok, rest) ==
  IF wpc = "rejected" \/ ~ok THEN "rejected"
  ELSE IF rest = {} THEN "commit" ELSE wpc

\* stmt.run([d.source, d.target], (runErr) => { ... }): all runs are queued by
\* the for loop, so those after a failed one still execute
PdInsert ==
  /\ syncOp = "project"
  /\ wpc \in {"insert", "rejected"}
  /\ \E d \in toInsert, ok \in BOOLEAN :
       /\ IF ok THEN WriteRow("project_dependencies", d) ELSE FailedStatement
       /\ toInsert' = toInsert \ {d}
       /\ wpc' = AfterRun(ok, toInsert \ {d})
  /\ UNCHANGED <<syncOp, newRows, preSync, syncs>>
  /\ SyncFrame

\* stmt.finalize((finalizeErr) => { ... this.db.run('COMMIT', (commitErr) => ...
PdCommit ==
  /\ syncOp = "project"
  /\ wpc = "commit"
  /\ \E ok \in BOOLEAN :
       IF ok /\ txn # <<>> THEN Commit /\ wpc' = "resolved"
       ELSE Rejected
  /\ UNCHANGED <<toInsert, syncOp, newRows, preSync, syncs>>
  /\ SyncFrame

\* syncFileDependenciesFromNx, with the records it will gather; called on a
\* connection without an open transaction
syncFileDependenciesFromNx ==
  /\ wpc \in {"idle", "resolved", "rejected"}
  /\ toInsert = {}
  /\ txn = <<>>
  /\ syncs < MaxSyncs
  /\ \E records \in SUBSET SyncFileDeps :
       /\ newRows' = records
       /\ toInsert' = records
  /\ syncOp' = "file"
  /\ preSync' = [project_dependencies |-> project_dependencies,
                 file_dependencies |-> file_dependencies]
  /\ syncs' = syncs + 1
  /\ wpc' = "clear"
  /\ UNCHANGED <<txn, project_dependencies, file_dependencies, committedStores>>
  /\ SyncFrame

\* await this.clearFileDependencies(): DELETE FROM file_dependencies, outside
\* any transaction; then batchInsertFileDependencies returns at once if
\* records.length === 0
clearFileDependencies ==
  /\ syncOp = "file"
  /\ wpc = "clear"
  /\ \E ok \in BOOLEAN :
       IF ok
       THEN /\ file_dependencies' = {}
            /\ wpc' = IF toInsert = {} THEN "resolved" ELSE "begin"
            /\ UNCHANGED <<toInsert, txn, project_dependencies, committedStores>>
       ELSE /\ Rejected
            /\ toInsert' = {}
  /\ UNCHANGED <<syncOp, newRows, preSync, syncs>>
  /\ SyncFrame

\* batchInsertFileDependencies: this.db.run('BEGIN TRANSACTION')
FdBegin ==
  /\ syncOp = "file"
  /\ wpc = "begin"
  /\ txn' = <<View>>
  /\ wpc' = "insert"
  /\ UNCHANGED <<toInsert, project_dependencies, file_dependencies,
                 committedStores, syncOp, newRows, preSync, syncs>>
  /\ SyncFrame

\* stmt.run([r.filePath, r.dependsOn, r.defined_in_file], (err) => { ... })
FdInsert ==
  /\ syncOp = "file"
  /\ wpc \in {"insert", "rejected"}
  /\ \E r \in toInsert, ok \in BOOLEAN :
       /\ IF ok THEN WriteRow("file_dependencies", r) ELSE FailedStatement
       /\ toInsert' = toInsert \ {r}
       /\ wpc' = AfterRun(ok, toInsert \ {r})
  /\ UNCHANGED <<syncOp, newRows, preSync, syncs>>
  /\ SyncFrame

\* stmt.finalize((err) => { ... this.db.run('COMMIT', (err) => ...
FdCommit ==
  /\ syncOp = "file"
  /\ wpc = "commit"
  /\ \E ok \in BOOLEAN :
       IF ok /\ txn # <<>> THEN Commit /\ wpc' = "resolved"
       ELSE Rejected
  /\ UNCHANGED <<toInsert, syncOp, newRows, preSync, syncs>>
  /\ SyncFrame

InitSync ==
  /\ projects = {[id |-> ProjectId(n), name |-> n] : n \in ProjectNames}
  /\ project_files = {}
  /\ project_dependencies \in SUBSET SyncEdges
  /\ file_dependencies \in SUBSET SyncFileDeps
  /\ git_commits = {}
  /\ touched_files = {}
  /\ BfsIdle
  /\ MetricsIdle
  /\ LoadIdle
  /\ SplitIdle
  /\ SyncIdle
  /\ ExtIdle

\* getProjectDependents(p) called on another connection to the same file
readDependents ==
  \E p \in ProjectNames : BfsCall("dependents", p, BatchSize)

\* the syncs on the writer connection, and a traversal on another connection
NextSync ==
  \/ syncAllProjectDependencies
  \/ PdBegin
  \/ PdDelete
  \/ PdInsert
  \/ PdCommit
  \/ syncFileDependenciesFromNx
  \/ clearFileDependencies
  \/ FdBegin
  \/ FdInsert
  \/ FdCommit
  \/ readDependents
  \/ BfsQuery
  \/ BfsRow
  \/ BfsReturn

SpecSync == InitSync /\ [][NextSync]_vars

----------------------------------------------------------------------------
(* Parallel lookups: the Promise.all of getAllProjectsMetrics and           *)
(* getEstimatedLoad.  Every getProjectDependents call runs its own loop on *)
(* its own queue, visited and result; the calls interleave at every        *)
(* awaited query and their then-callbacks run in the order they resolve.   *)

\* transitiveDependents.set(p, deps)
MapSet_Replace(m, p, deps) == [q \in {p} |-> deps]
MapSet(m, p, deps) ==
  [q \in DOMAIN m \cup {p} |-> IF q = p THEN deps ELSE m[q]]

\* the locals of a getProjectDependents call when its loop starts
Lookup(p) ==
  [queue |-> <<p>>, visited |-> InitVisited(p), result |-> {},
   state |-> "running"]

\* the catch block: return []
CatchResult_Partial(res) == res
CatchResult(res) == {}

\* the final projects.map(...) of getAllProjectsMetrics
ProjectMetrics(trows, tdeps) ==
  LET ps == getAllProjects
      tbc == TouchedByCommit(trows)
  IN [i \in 1..Len(ps) |->
        [name |-> ps[i].name,
         touched_count |-> TouchCount(trows, ps[i].name),
         dependent_count |-> DependentCount(tdeps, ps[i].name),
         load |-> TouchCount(trows, ps[i].name) * DependentCount(tdeps, ps[i].name),
         affected_count |-> AffectedCount(tbc, tdeps, ps[i].name)]]

\* file lists the parallel model asks the load for
ParFiles == {"a.ts", "b.ts", "c.ts"}
ParInputs == {SortedList(S) : S \in SUBSET ParFiles}

\* Promise.all(array.map(p => this.getProjectDependents(p).then(...)))
StartLookups(ps) ==
  /\ lookups' = [p \in ps |-> Lookup(p)]
  /\ transitiveDependents' = <<>>
  /\ order' = <<>>
  /\ failedLookups' = {}
  /\ pc' = "lookups"

\* a return before the Promise.all
ReturnEarly ==
  /\ pc' = "done"
  /\ UNCHANGED <<locals, lookups, transitiveDependents, order, failedLookups>>

ParFrame_Memoize ==
  /\ project_dependencies' =
       project_dependencies \cup {Edge(p, p) : p \in DOMAIN transitiveDependents}
  /\ UNCHANGED <<projects, project_files, file_dependencies, git_commits,
                 touched_files, syncVars, splitVars, crudVars, direction,
                 projectName, batchSize, queue, visited, result, rows>>
\* what a metrics / load call leaves alone: it issues SELECT statements only
ParFrame ==
  UNCHANGED <<storeVars, syncVars, splitVars, crudVars, direction, projectName,
              batchSize, queue, visited, result, rows>>

\* getAllProjectsMetrics up to the Promise.all
MetricsBegin ==
  /\ pc = "idle"
  /\ \E n \in 1..MaxWindow :
       LET commitIds == RecentCommitIds(n)
           trows == TouchedRows(commitIds)
       IN /\ commitCount' = n
          /\ IF Len(commitIds) = 0
             THEN /\ metrics' = AllProjectsMetrics(n)
                  /\ ReturnEarly
             ELSE /\ locals' = [trows |-> trows]
                  /\ StartLookups(ProjectsToCompute(trows))
                  /\ UNCHANGED metrics
  /\ parOp' = "metrics"
  /\ UNCHANGED <<loadVars, candidate, settled>>
  /\ ParFrame

\* getEstimatedLoad up to the Promise.all
LoadBegin ==
  /\ pc = "idle"
  /\ \E fps \in ParInputs, n \in 1..MaxWindow :
       LET direct == DirectDependents(ProjectDependencyMapForFiles(fps))
       IN /\ filePaths' = fps
          /\ commitCount' = n
          /\ IF Len(fps) = 0 \/ Cardinality(direct) = 0
             THEN /\ estimatedLoad' = 0
                  /\ ReturnEarly
             ELSE /\ locals' = [touchCount |-> FilesTouchedCount(fps, n),
                                directDependents |-> direct]
                  /\ StartLookups(direct)
                  /\ UNCHANGED estimatedLoad
  /\ parOp' = "load"
  /\ UNCHANGED <<metrics, candidate, settled>>
  /\ ParFrame

LookupFrame ==
  /\ UNCHANGED <<pc, parOp, locals, candidate, settled, metricVars, loadVars>>
  /\ ParFrame

\* one lookup resumes after its awaited query: the for loop over the rows,
\* and the return when the queue is empty
LookupQuery ==
  /\ pc = "lookups"
  /\ \E p \in DOMAIN lookups :
       /\ lookups[p].state = "running"
       /\ LET l == lookups[p]
              sp == Splice(l.queue, BatchSize)
              rs == MatchRows("dependents", project_dependencies, sp.batch)
              new == {RowProject("dependents", r) : r \in rs} \ l.visited
              q == sp.rest \o SetToSeq(new)
          IN lookups' = [lookups EXCEPT ![p] =
                           [queue |-> q, visited |-> l.visited \cup new,
                            result |-> l.result \cup new,
                            state |-> IF q = <<>> THEN "returned" ELSE "running"]]
  /\ UNCHANGED <<transitiveDependents, order, failedLookups>>
  /\ LookupFrame

\* the awaited query of one lookup rejects: console.warn and return []
LookupCatch ==
  /\ pc = "lookups"
  /\ \E p \in DOMAIN lookups :
       /\ lookups[p].state = "running"
       /\ lookups' = [lookups EXCEPT ![p].result = CatchResult(@),
                                     ![p].state = "returned"]
       /\ failedLookups' = failedLookups \cup {p}
  /\ UNCHANGED <<transitiveDependents, order>>
  /\ LookupFrame

\* .then((deps) => { transitiveDependents.set(p, deps); return deps; })
LookupThen ==
  /\ pc = "lookups"
  /\ \E p \in DOMAIN lookups :
       /\ lookups[p].state = "returned"
       /\ transitiveDependents' = MapSet(transitiveDependents, p, lookups[p].result)
       /\ lookups' = [lookups EXCEPT ![p].state = "settled"]
       /\ order' = Append(order, p)
  /\ UNCHANGED failedLookups
  /\ LookupFrame

Settled == \A p \in DOMAIN lookups : lookups[p].state = "settled"

\* getAllProjectsMetrics after the Promise.all
MetricsEnd ==
  /\ pc = "lookups"
  /\ parOp = "metrics"
  /\ Settled
  /\ metrics' = ProjectMetrics(locals.trows, transitiveDependents)
  /\ pc' = "done"
  /\ UNCHANGED <<commitCount, loadVars, parVars>>
  /\ ParFrame

\* getEstimatedLoad after the Promise.all
LoadEnd ==
  /\ pc = "lookups"
  /\ parOp = "load"
  /\ Settled
  /\ estimatedLoad' =
       locals.touchCount
         * Cardinality(AllDependents(locals.directDependents, transitiveDependents))
  /\ pc' = "done"
  /\ UNCHANGED <<commitCount, metrics, filePaths, parVars>>
  /\ ParFrame

\* a candidate move of getSuggestedFileSplit:
\* Promise.all([getEstimatedLoad(newGroupA), getEstimatedLoad(newGroupB)])
CandidateBegin ==
  /\ pc = "idle"
  /\ \E gA \in ParInputs, gB \in ParInputs :
       /\ SeqRange(gA) \cap SeqRange(gB) = {}
       /\ SeqRange(gA) \cup SeqRange(gB) = ParFiles
       /\ candidate' = <<gA, gB>>
  /\ settled' = <<>>
  /\ order' = <<>>
  /\ commitCount' = DefaultCommitCount
  /\ parOp' = "candidate"
  /\ pc' = "pair"
  /\ UNCHANGED <<locals, lookups, transitiveDependents, failedLookups, metrics,
                 loadVars>>
  /\ ParFrame

\* one of the two calls resolves; Promise.all keeps its value at its index
CandidateSettle ==
  /\ pc = "pair"
  /\ \E i \in {1, 2} \ DOMAIN settled :
       /\ settled' = MapSet(settled, i, EstimatedLoad(candidate[i], commitCount))
       /\ order' = Append(order, i)
  /\ UNCHANGED <<pc, parOp, locals, lookups, transitiveDependents, failedLookups,
                 candidate, metricVars, loadVars>>
  /\ ParFrame

\* const [candidateLoadA, candidateLoadB] = await Promise.all(...)
CandidateEnd ==
  /\ pc = "pair"
  /\ DOMAIN settled = {1, 2}
  /\ locals' = [candidateLoadA |-> settled[1], candidateLoadB |-> settled[2]]
  /\ pc' = "done"
  /\ UNCHANGED <<parOp, lookups, transitiveDependents, order, failedLookups,
                 candidate, settled, metricVars, loadVars>>
  /\ ParFrame

\* project edges of the parallel model: the same three as the sync model
\* memberships: core owns a.ts and b.ts, mid b.ts, app c.ts and d.ts
InitParallel ==
  /\ projects = {[id |-> ProjectId(n), name |-> n] : n \in ProjectNames}
  /\ project_files = MembershipUniverse \cup {Membership("app", "d.ts")}
  /\ project_dependencies \in SUBSET SyncEdges
  /\ file_dependencies \in SUBSET FileDepUniverse
  /\ git_commits = {[id |-> 1, date |-> 2], [id |-> 2, date |-> 1]}
  /\ touched_files \in
       {T \in SUBSET TouchUniverse : \A c \in git_commits :
                                       \E t \in T : t.commit_id = c.id}
  /\ BfsIdle
  /\ MetricsIdle
  /\ LoadIdle
  /\ SplitIdle
  /\ SyncIdle
  /\ ExtIdle

\* every query succeeds
NextParallel ==
  \/ MetricsBegin
  \/ LoadBegin
  \/ LookupQuery
  \/ LookupThen
  \/ MetricsEnd
  \/ LoadEnd
  \/ CandidateBegin
  \/ CandidateSettle
  \/ CandidateEnd

SpecParallel == InitParallel /\ [][NextParallel]_vars

----------------------------------------------------------------------------
(* The read side with failing queries: any awaited query of a traversal    *)
(* may reject (SQLITE_BUSY, I/O error), which the catch block of the       *)
(* traversal turns into an empty list.                                     *)

\* the awaited query of a single getProjectDependents / getProjectDependencies
\* call rejects: console.warn and return []
BfsCatch ==
  /\ pc = "loop"
  /\ queue # <<>>
  /\ result' = CatchResult(result)
  /\ failedLookups' = failedLookups \cup {projectName}
  /\ pc' = "done"
  /\ UNCHANGED <<storeVars, syncVars, metricVars, loadVars, splitVars, direction,
                 projectName, batchSize, queue, visited, rows, parOp, locals,
                 lookups, transitiveDependents, order, candidate, settled,
                 crudVars>>

\* one call of getProjectDependencyMapForFiles(filePaths)
getProjectDependencyMapForFiles ==
  /\ pc = "idle"
  /\ \E fps \in ParInputs :
       /\ filePaths' = fps
       /\ locals' = [dependencyMap |->
                       IF Len(fps) = 0 THEN <<>> ELSE ProjectDependencyMapForFiles(fps)]
  /\ parOp' = "map"
  /\ pc' = "done"
  /\ UNCHANGED <<lookups, transitiveDependents, order, failedLookups, candidate,
                 settled, metricVars, estimatedLoad>>
  /\ ParFrame

\* the store of the read-side model: every import of FileDepUniverse, any
\* of the three project edges, both commits touching a file
InitReaders ==
  /\ projects = {[id |-> ProjectId(n), name |-> n] : n \in ProjectNames}
  /\ project_files = MembershipUniverse \cup {Membership("app", "d.ts")}
  /\ project_dependencies \in SUBSET SyncEdges
  /\ file_dependencies = FileDepUniverse
  /\ git_commits = {[id |-> 1, date |-> 2], [id |-> 2, date |-> 1]}
  /\ touched_files \in
       {T \in SUBSET TouchUniverse : \A c \in git_commits :
                                       \E t \in T : t.commit_id = c.id}
  /\ BfsIdle
  /\ MetricsIdle
  /\ LoadIdle
  /\ SplitIdle
  /\ SyncIdle
  /\ ExtIdle

\* every read operation of ProjectDatabase / ProjectViewDb, with queries of
\* a traversal allowed to fail
NextReaders ==
  \/ getProjectDependents
  \/ getProjectDependencies
  \/ BfsQuery
  \/ BfsRow
  \/ BfsCatch
  \/ BfsReturn
  \/ MetricsBegin
  \/ LoadBegin
  \/ LookupQuery
  \/ LookupCatch
  \/ LookupThen
  \/ MetricsEnd
  \/ LoadEnd
  \/ getProjectDependencyMapForFiles
  \/ getSuggestedFileSplit
  \/ SplitMove
  \/ SplitReturn

SpecReaders == InitReaders /\ [][NextReaders]_vars

----------------------------------------------------------------------------
(* The list-projects command: touched count, load and affected count from  *)
(* the three per-metric queries                                            *)

\* array.sort((a, b) => b.key - a.key) / ORDER BY key DESC over the rows of
\* S, key a function on S; ties in the order the engine or the sort leaves
RECURSIVE SortDescBy(_, _)
SortDescBy(S, key) ==
  IF S = {} THEN <<>>
  ELSE LET x == CHOOSE y \in S : \A z \in S : key[z] <= key[y]
       IN <<x>> \o SortDescBy(S \ {x}, key)

\* COUNT(DISTINCT tf.commit_id) of one group of GROUP BY p.name
CountCommits_AllRows(js, name) == Cardinality({j \in js : j.p.name = name})
CountCommits(js, name) ==
  Cardinality({j.tf.commit_id : j \in {k \in js : k.p.name = name}})

\* getAllProjectsTouchedCount(n): one row per project with a touched file
AllProjectsTouchedCount(n) ==
  LET js == TouchedJoin(RecentCommitIds(n))
      rs == {[name |-> nm, touch_count |-> CountCommits(js, nm)] :
               nm \in {j.p.name : j \in js}}
  IN SortDescBy(rs, [r \in rs |-> r.touch_count])

\* getAllProjectsLoad(n)
AllProjectsLoad(n) ==
  LET tc == AllProjectsTouchedCount(n)
      rs == {[name |-> tc[i].name,
              load |-> tc[i].touch_count
                         * Cardinality(ProjectDependents(project_dependencies,
                                                         tc[i].name))] :
               i \in 1..Len(tc)}
  IN SortDescBy(rs, [r \in rs |-> r.load])

\* getAllProjectsAffectedCount(n)
AllProjectsAffectedCount(n) ==
  LET commitIds == RecentCommitIds(n)
  IN IF Len(commitIds) = 0 THEN <<>>
     ELSE LET js == SetToSeq(TouchedJoin(commitIds))
              trows == [i \in 1..Len(js) |->
                          [commit_id |-> js[i].tf.commit_id,
                           project_name |-> js[i].p.name]]
              tbc == TouchedByCommit(trows)
              tdeps == TransitiveDependents(trows)
              rs == {[name |-> p.name,
                      affected_count |-> AffectedCount(tbc, tdeps, p.name)] :
                       p \in projects}
          IN SortDescBy(rs, [r \in rs |-> r.affected_count])

\* rows.find((p) => p.name === name)?.field || 0
Find(arr, name, field) ==
  IF \E i \in 1..Len(arr) : arr[i].name = name
  THEN arr[CHOOSE i \in 1..Len(arr) :
             arr[i].name = name /\ \A k \in 1..(i - 1) : arr[k].name # name][field]
  ELSE 0

\* sortedProjects of the list-projects command
ListProjects(n) ==
  LET ps == getAllProjects
      touchedCounts == AllProjectsTouchedCount(n)
      loads == AllProjectsLoad(n)
      affectedCounts == AllProjectsAffectedCount(n)
      rs == {[name |-> ps[i].name,
              touchedCount |-> Find(touchedCounts, ps[i].name, "touch_count"),
              load |-> Find(loads, ps[i].name, "load"),
              affectedCount |-> Find(affectedCounts, ps[i].name, "affected_count")] :
               i \in 1..Len(ps)}
  IN SortDescBy(rs, [r \in rs |-> r.load])

\* runCLI(['list-projects', n]) up to logger.table(sortedProjects, ...)
listProjects ==
  /\ pc = "idle"
  /\ \E n \in 1..MaxWindow :
       /\ commitCount' = n
       /\ locals' = [sortedProjects |-> ListProjects(n)]
  /\ parOp' = "list-projects"
  /\ pc' = "done"
  /\ UNCHANGED <<lookups, transitiveDependents, order, failedLookups, candidate,
                 settled, metrics, loadVars>>
  /\ ParFrame

NextList == listProjects

SpecList == InitLoad /\ [][NextList]_vars

----------------------------------------------------------------------------
(* Project store: createProject, updateProject, deleteProject,              *)
(* addFileToProject, removeFileFromProject, getProjectFiles; and the       *)
(* command line, runCLI.  A projects row is [id, name, description].       *)

\* names and files the calls are made with
CrudNames == {"core", "mid"}
CrudFiles == {"a.ts"}
\* the most rows the projects table is ever given
MaxProjects == 2
\* no git sync starts once touched_files has been given this many rowids
MaxGitSyncs == 1

\* the relations and counter the project methods work on
Pdb == [projects |-> projects, project_files |-> project_files,
        projects_seq |-> projects_seq]

\* a method's outcome: the store after it, what it resolves to (rejected:
\* what it rejects with) and the number of rows it inserted, changed or deleted
Outcome(d, rejected, value, changes) ==
  [db |-> d, rejected |-> rejected, value |-> value, changes |-> changes]

\* new Error(`Project "${projectName}" not found`)
NotFound(name) == <<"Project", name, "not found">>

\* SELECT * FROM projects WHERE name = ?: <<>> for null, else <<row>>
getProject(d, name) ==
  LET S == {p \in d.projects : p.name = name}
  IN IF S = {} THEN <<>> ELSE <<CHOOSE p \in S : TRUE>>

\* INSERT INTO projects (name, description) VALUES (?, ?): name is UNIQUE
CreateProject(d, name, description) ==
  IF getProject(d, name) # <<>>
  THEN Outcome(d, TRUE, "UNIQUE constraint failed: projects.name", 0)
  ELSE LET id == d.projects_seq + 1
       IN Outcome([d EXCEPT !.projects = @ \cup {[id |-> id, name |-> name,
                                                   description |-> description]},
                            !.projects_seq = id],
                  FALSE, id, 1)

\* UPDATE projects SET description = ?, ... WHERE name = ?; resolves changes > 0
UpdateProject_Upsert(d, name, description) ==
  Outcome([d EXCEPT !.projects =
             {p \in @ : p.name # name}
               \cup {[id |-> IF getProject(d, name) = <<>> THEN d.projects_seq + 1
                             ELSE getProject(d, name)[1].id,
                      name |-> name, description |-> description]}],
          FALSE, getProject(d, name) # <<>>, 1)
UpdateProject(d, name, description) ==
  LET hit == {p \in d.projects : p.name = name}
  IN Outcome([d EXCEPT !.projects =
                (@ \ hit) \cup {[p EXCEPT !.description = description] : p \in hit}],
             FALSE, Cardinality(hit) > 0, Cardinality(hit))

\* DELETE FROM projects WHERE name = ?; resolves changes > 0.  The rows of
\* project_files that reference the project go with it (ON DELETE CASCADE)
\* only on a connection that enforces foreign keys.
DeleteProject(d, name) ==
  LET hit == {p \in d.projects : p.name = name}
      cascade == IF foreign_keys
                 THEN {pf \in d.project_files :
                         \E p \in hit : pf.project_id = p.id}
                 ELSE {}
  IN Outcome([d EXCEPT !.projects = @ \ hit, !.project_files = @ \ cascade],
             FALSE, Cardinality(hit) > 0, Cardinality(hit) + Cardinality(cascade))

\* getProject, then INSERT OR REPLACE INTO project_files
AddFileToProject(d, name, file) ==
  LET project == getProject(d, name)
  IN IF project = <<>> THEN Outcome(d, TRUE, NotFound(name), 0)
     ELSE Outcome([d EXCEPT !.project_files =
                     @ \cup {[project_id |-> project[1].id, file_path |-> file]}],
                  FALSE, "void", 1)

\* getProject, then DELETE FROM project_files WHERE project_id = ? AND file_path = ?
RemoveFileFromProject(d, name, file) ==
  LET project == getProject(d, name)
  IN IF project = <<>> THEN Outcome(d, FALSE, FALSE, 0)
     ELSE LET hit == {pf \in d.project_files :
                        pf.project_id = project[1].id /\ pf.file_path = file}
          IN Outcome([d EXCEPT !.project_files = @ \ hit],
                     FALSE, Cardinality(hit) > 0, Cardinality(hit))

\* getProject, then SELECT * FROM project_files WHERE project_id = ? ORDER BY file_path
GetProjectFiles(d, name) ==
  LET project == getProject(d, name)
  IN IF project = <<>> THEN Outcome(d, FALSE, <<>>, 0)
     ELSE Outcome(d, FALSE,
                  SortedList({pf.file_path : pf \in
                                {r \in d.project_files : r.project_id = project[1].id}}),
                  0)

\* one awaited call of a project method on an open ProjectDatabase
Call(op, name, out) ==
  /\ pc = "idle"
  /\ cli.phase \in {"idle", "returned"}
  /\ projects' = out.db.projects
  /\ project_files' = out.db.project_files
  /\ projects_seq' = out.db.projects_seq
  /\ returned' = <<[op |-> op, name |-> name,
                    absent |-> getProject(Pdb, name) = <<>>,
                    rejected |-> out.rejected, value |-> out.value,
                    before |-> Pdb]>>
  /\ cli' = CliIdle
  /\ UNCHANGED <<project_dependencies, file_dependencies, git_commits,
                 touched_files, foreign_keys, syncVars, parVars, bfsVars,
                 metricVars, loadVars, splitVars>>

createProject ==
  /\ projects_seq < MaxProjects
  /\ \E name \in CrudNames :
       Call("createProject", name, CreateProject(Pdb, name, "d0"))

updateProject ==
  \E name \in CrudNames :
    Call("updateProject", name, UpdateProject(Pdb, name, "d1"))

deleteProject ==
  \E name \in CrudNames :
    Call("deleteProject", name, DeleteProject(Pdb, name))

addFileToProject ==
  \E name \in CrudNames, file \in CrudFiles :
    Call("addFileToProject", name, AddFileToProject(Pdb, name, file))

removeFileFromProject ==
  \E name \in CrudNames, file \in CrudFiles :
    Call("removeFileFromProject", name, RemoveFileFromProject(Pdb, name, file))

getProjectFiles ==
  \E name \in CrudNames :
    Call("getProjectFiles", name, GetProjectFiles(Pdb, name))

(* runCLI: an argument is a word, or a list of characters where the command
   parses it as a number *)

DigitChars == <<"0", "1", "2", "3", "4", "5", "6", "7", "8", "9">>
IsDigit(c) == \E i \in 1..Len(DigitChars) : DigitChars[i] = c
DigitValue(c) == (CHOOSE i \in 1..Len(DigitChars) : DigitChars[i] = c) - 1

\* the longest prefix of s made of digits
RECURSIVE LeadingDigits(_)
LeadingDigits(s) ==
  IF s = <<>> \/ ~IsDigit(s[1]) THEN <<>>
  ELSE <<s[1]>> \o LeadingDigits(Tail(s))

RECURSIVE DecimalValue(_)
DecimalValue(ds) ==
  IF ds = <<>> THEN 0
  ELSE 10 * DecimalValue(SubSeq(ds, 1, Len(ds) - 1)) + DigitValue(ds[Len(ds)])

\* text without its leading white space
RECURSIVE TrimStart(_)
TrimStart(text) ==
  IF text # <<>> /\ text[1] \in Whitespace THEN TrimStart(Tail(text)) ELSE text

\* parseInt(text, 10): leading white space, a sign, then digits up to the
\* first other character; NaN when no digit is there
ParseInt(text) ==
  LET t == TrimStart(text)
      signed == t # <<>> /\ t[1] \in {"-", "+"}
      ds == LeadingDigits(IF signed THEN Tail(t) ELSE t)
  IN IF ds = <<>> THEN [nan |-> TRUE, value |-> 0]
     ELSE [nan |-> FALSE,
           value |-> IF signed /\ t[1] = "-" THEN 0 - DecimalValue(ds)
                     ELSE DecimalValue(ds)]

\* const limit = limitStr ? parseInt(limitStr, 10) : 50
DefaultLimit == 50

\* str ? parseInt(str, 10) : default, and isNaN(n) || n <= 0
CountOf(str, default) ==
  IF str = <<>> THEN [nan |-> FALSE, value |-> default] ELSE ParseInt(str)
InvalidCount(str, default) ==
  CountOf(str, default).nan \/ CountOf(str, default).value <= 0

\* const [a, b] = args.slice(1): undefined (here "" or <<>>) when missing
Arg(args, i, missing) == IF Len(args) >= i THEN args[i] ELSE missing

\* count arguments: 1, 0, -1, a word, a number followed by a letter
CountStrings ==
  {<<"1">>, <<"0">>, <<"-", "1">>, <<"i", "n", "v">>, <<"2", "x">>}

CountCommands == {"sync", "sync-git", "list-commits", "git-affected"}
NameCommands == {"create-project", "delete-project", "list-files"}
FileCommands == {"add-file", "remove-file"}
Commands == CountCommands \cup NameCommands \cup FileCommands

\* the invocations of the model
CliArgs ==
  {<<>>, <<"unknown-command">>}
    \cup {<<c>> : c \in Commands}
    \cup {<<c, n>> : c \in CountCommands, n \in CountStrings}
    \cup {<<c, n>> : c \in NameCommands \cup FileCommands, n \in CrudNames}
    \cup {<<c, n, f>> : c \in FileCommands, n \in CrudNames, f \in CrudFiles}

\* what the workspace of the sync command holds: project core with a.ts,
\* the edge mid -> core, one commit h1 touching a.ts
NxProject == "core"
NxFile == "a.ts"
NxEdges == {Edge("mid", "core")}
GitCommit == [hash |-> <<"h1">>, date |-> <<"d1">>]
GitFiles == <<[filePath |-> <<"a.ts">>, changeType |-> "M"]>>

\* syncNxProject: update the project or create it, then add its files
SyncNxProject(d) ==
  LET up == IF getProject(d, NxProject) # <<>>
            THEN UpdateProject(d, NxProject, "d1")
            ELSE CreateProject(d, NxProject, "d1")
      add == AddFileToProject(up.db, NxProject, NxFile)
  IN Outcome(add.db, FALSE, "void", up.changes + add.changes)

\* what a command leaves behind: the relations, the exit code, the last
\* message of the logger, whether the command ended in an argument check,
\* and the rows it inserted, changed or deleted
Ran(d, deps, gdb, code, message, validation, changes) ==
  [db |-> d, project_dependencies |-> deps, gdb |-> gdb, exitCode |-> code,
   message |-> message, validation |-> validation, changes |-> changes]

\* logger.error(message); return 1
Refuse(message) == Ran(Pdb, project_dependencies, Db, 1, message, TRUE, 0)
\* a command that changes nothing and breaks out of the switch
Done(message) == Ran(Pdb, project_dependencies, Db, 0, message, FALSE, 0)
\* a project method's outcome: a rejection is caught and reported
Wrote(out, message) ==
  Ran(out.db, project_dependencies, Db, IF out.rejected THEN 1 ELSE 0,
      IF out.rejected THEN out.value ELSE message, FALSE, out.changes)

\* await db.syncGitCommits(commitCount)
GitSync(d, deps, changes) ==
  LET saved == saveCommitWithFiles(Db, GitCommit, GitFiles).db
  IN Ran(d, deps, saved, 0, "Git sync completed successfully", FALSE,
         changes + Cardinality(saved.git_commits \ git_commits)
                 + Cardinality(saved.touched_files \ touched_files))

\* case 'sync': both syncs run before the commit count is looked at
\* case 'sync-git': the commit count is looked at first
SyncFirst(args, nxOk) ==
  IF ~nxOk THEN Ran(Pdb, project_dependencies, Db, 1,
                    "Failed to sync with Nx workspace", FALSE, 0)
  ELSE LET nx == SyncNxProject(Pdb)
           changes == nx.changes + Cardinality(project_dependencies)
                        + Cardinality(NxEdges)
       IN IF InvalidCount(Arg(args, 2, <<>>), DefaultCommitCount)
          THEN Ran(nx.db, NxEdges, Db, 1,
                   "Commit count must be a positive number", TRUE, changes)
          ELSE GitSync(nx.db, NxEdges, changes)

\* the switch of runCLI
Switch(args, nxOk) ==
  LET command == args[1]
      name == Arg(args, 2, "")
      filePath == Arg(args, 3, "")
      count == Arg(args, 2, <<>>)
  IN CASE command = "sync" -> SyncFirst(args, nxOk)
       [] command = "sync-git" ->
            IF InvalidCount(count, DefaultCommitCount)
            THEN Refuse("Commit count must be a positive number")
            ELSE GitSync(Pdb, project_dependencies, 0)
       [] command = "git-affected" ->
            IF InvalidCount(count, DefaultCommitCount)
            THEN Refuse("Commit count must be a positive number")
            ELSE Done("Projects affected")
       [] command = "list-commits" ->
            IF InvalidCount(count, DefaultLimit)
            THEN Refuse("Limit must be a positive number")
            ELSE Done("Recent commits")
       [] command = "create-project" ->
            IF name = "" THEN Refuse("Project name is required")
            ELSE Wrote(CreateProject(Pdb, name, "d0"), "Created project")
       [] command = "delete-project" ->
            IF name = "" THEN Refuse("Project name is required")
            ELSE Wrote(DeleteProject(Pdb, name), "Deleted project")
       [] command = "list-files" ->
            IF name = "" THEN Refuse("Project name is required")
            ELSE Done("Files in project")
       [] command = "add-file" ->
            IF name = "" \/ filePath = ""
            THEN Refuse("Project name and file path are required")
            ELSE Wrote(AddFileToProject(Pdb, name, filePath), "Added")
       [] command = "remove-file" ->
            IF name = "" \/ filePath = ""
            THEN Refuse("Project name and file path are required")
            ELSE Wrote(RemoveFileFromProject(Pdb, name, filePath), "Removed")
       [] OTHER -> Refuse("Unknown command")

CliFrame ==
  UNCHANGED <<foreign_keys, ingestVars, txnVars, parVars, bfsVars, metricVars,
              loadVars, splitVars>>

\* runCLI(args) up to the try block: the usage text, or a ProjectDatabase
\* opened on the store
runCLI ==
  /\ pc = "idle"
  /\ cli.phase \in {"idle", "returned"}
  /\ \E args \in CliArgs :
       /\ (args # <<>> /\ args[1] \in {"create-project", "sync"}) =>
            projects_seq < MaxProjects
       /\ (args # <<>> /\ args[1] \in {"sync", "sync-git"}) =>
            sqlite_sequence.touched_files < MaxGitSyncs
       /\ cli' = IF args = <<>>
                 THEN [CliIdle EXCEPT !.phase = "returned", !.exitCode = 1,
                                      !.message = "Usage", !.validation = TRUE]
                 ELSE [CliIdle EXCEPT
                         !.args = args, !.phase = "try", !.connection = "open",
                         !.absent = /\ args[1] \in NameCommands \cup FileCommands
                                    /\ getProject(Pdb, Arg(args, 2, "")) = <<>>]
  /\ returned' = <<>>
  /\ UNCHANGED <<storeVars, projects_seq, connVars>>
  /\ CliFrame

\* the try block: the switch, with a thrown error caught
CliSwitch ==
  /\ cli.phase = "try"
  /\ \E nxOk \in BOOLEAN :
       LET ran == Switch(cli.args, nxOk)
       IN /\ projects' = ran.db.projects
          /\ project_files' = ran.db.project_files
          /\ projects_seq' = ran.db.projects_seq
          /\ project_dependencies' = ran.project_dependencies
          /\ Store(ran.gdb)
          /\ UNCHANGED file_dependencies
          /\ cli' = [cli EXCEPT !.phase = "finally", !.exitCode = ran.exitCode,
                                !.message = ran.message,
                                !.validation = ran.validation,
                                !.changes = ran.changes]
  /\ UNCHANGED returned
  /\ CliFrame

\* finally { await db.close(); }, then the return of the exit code
CliReturn ==
  /\ cli.phase = "finally"
  /\ cli' = [cli EXCEPT !.phase = "returned", !.connection = "closed"]
  /\ UNCHANGED <<storeVars, projects_seq, connVars, returned>>
  /\ CliFrame

\* a new database file; whether the connection enforces foreign keys is the
\* default of the SQLite build, since no PRAGMA foreign_keys is issued
InitCLI ==
  /\ projects = {}
  /\ project_files = {}
  /\ project_dependencies = {}
  /\ file_dependencies = {}
  /\ git_commits = {}
  /\ touched_files = {}
  /\ foreign_keys \in BOOLEAN
  /\ projects_seq = 0
  /\ returned = <<>>
  /\ cli = CliIdle
  /\ BfsIdle
  /\ MetricsIdle
  /\ LoadIdle
  /\ SplitIdle
  /\ SyncIdle
  /\ ParIdle

NextCLI ==
  \/ createProject
  \/ updateProject
  \/ deleteProject
  \/ addFileToProject
  \/ removeFileFromProject
  \/ getProjectFiles
  \/ runCLI
  \/ CliSwitch
  \/ CliReturn

SpecCLI == InitCLI /\ [][NextCLI]_vars

----------------------------------------------------------------------------
(* Reachability, stated independently of the traversal *)

EdgePairs(edges) == {<<e.source_project, e.target_project>> : e \in edges}

\* pairs <<x, y>> with a path of one or more edges from x to y
RECURSIVE Closure(_)
Closure(R) ==
  LET step == R \cup {p \in ProjectNames \X ProjectNames :
                        \E m \in ProjectNames : <<p[1], m>> \in R /\ <<m, p[2]>> \in R}
  IN IF step = R THEN R ELSE Closure(step)

\* the projects from which p is reachable, p itself left out
DependentsIn(cl, p) == {q \in ProjectNames : <<q, p>> \in cl} \ {p}

ReachDependents(edges, p) == DependentsIn(Closure(EdgePairs(edges)), p)
ReachDependencies(edges, p) ==
  {q \in ProjectNames : <<p, q>> \in Closure(EdgePairs(edges))} \ {p}

\* C1: when a traversal returns, its result is exactly the set of projects
\* from which the start project is reachable (dependents) or that are
\* reachable from it (dependencies) along one or more edges, without the
\* start project itself; row order and batch size do not matter.
C1_Reachability ==
  pc = "done" =>
    result = IF direction = "dependents"
             THEN ReachDependents(project_dependencies, projectName)
             ELSE ReachDependencies(project_dependencies, projectName)

\* the chain app -> mid -> core plus a cycle through the start project,
\* traversed with one-project batches
C1_Witness ==
  /\ pc = "done"
  /\ batchSize = 1
  /\ direction = "dependents"
  /\ projectName = "core"
  /\ project_dependencies =
       {Edge("app", "mid"), Edge("mid", "core"), Edge("core", "app"),
        Edge("core", "core")}
  /\ result = {"mid", "app"}

\* C2: every traversal terminates, also on cycles and self-loops.
C2_Terminates == (pc = "loop") ~> (pc = "done")

C2_Witness ==
  /\ pc = "done"
  /\ \E e \in project_dependencies : e.source_project = e.target_project
  /\ <<projectName, projectName>> \in Closure(EdgePairs(project_dependencies))
  /\ Cardinality(result) = 2

----------------------------------------------------------------------------
(* Windowed metrics, stated independently of the queries *)

CommitIds == {c.id : c \in git_commits}
DateOf(id) == (CHOOSE c \in git_commits : c.id = id).date

\* W is a set of the n most recent commits by date
IsWindow(W, n) ==
  /\ W \subseteq CommitIds
  /\ Cardinality(W) = Min(n, Cardinality(CommitIds))
  /\ \A c \in W, d \in CommitIds \ W : DateOf(c) >= DateOf(d)

\* the commit touched at least one file that belongs to the project
Touches(c, name) ==
  \E tf \in touched_files, pf \in project_files :
    /\ tf.commit_id = c
    /\ tf.file_path = pf.file_path
    /\ pf.project_id = ProjectId(name)

TouchedProjects(c) == {n \in ProjectNames : Touches(c, n)}

\* directly touched projects and the transitive dependents of each, with
\* cl the reachability relation of project_dependencies
AffectedSet(cl, c) ==
  TouchedProjects(c) \cup UNION {DependentsIn(cl, t) : t \in TouchedProjects(c)}

Entries == {metrics[i] : i \in 1..Len(metrics)}
Entry(name) == CHOOSE e \in Entries : e.name = name

\* C3: touched_count of every project is the number of distinct commits of
\* the window that touched at least one of its files.
C3_TouchedCount ==
  pc = "done" =>
    \E W \in SUBSET CommitIds :
      /\ IsWindow(W, commitCount)
      /\ \A p \in projects :
           /\ \E e \in Entries : e.name = p.name
           /\ Entry(p.name).touched_count =
                Cardinality({c \in W : Touches(c, p.name)})

\* one commit touches two files of core, one of them shared with mid
C3_Witness ==
  /\ pc = "done"
  /\ \E c \in CommitIds :
       /\ Cardinality({tf \in touched_files : tf.commit_id = c}) = 2
       /\ \A tf \in touched_files :
            [project_id |-> ProjectId("core"), file_path |-> tf.file_path]
              \in project_files
       /\ \E tf \in touched_files :
            [project_id |-> ProjectId("mid"), file_path |-> tf.file_path]
              \in project_files
  /\ Entry("core").touched_count = 1
  /\ Entry("mid").touched_count = 1

\* C4: dependent_count of every project is the size of its transitive
\* dependents set in the whole graph, whatever the window holds.
C4_DependentCount ==
  pc = "done" =>
    \A e \in Entries :
      /\ "dependent_count" \in DOMAIN e
      /\ e.dependent_count =
           Cardinality(ReachDependents(project_dependencies, e.name))

\* C5: load of every entry is touched_count times dependent_count.
C5_LoadProduct ==
  pc = "done" =>
    \A e \in Entries :
      /\ "dependent_count" \in DOMAIN e
      /\ e.load = e.touched_count * e.dependent_count

\* C6: affected_count of every project is the number of commits of the
\* window whose affected set contains it, once per commit.
C6_AffectedCount ==
  pc = "done" =>
    LET cl == Closure(EdgePairs(project_dependencies))
        aff == [c \in CommitIds |-> AffectedSet(cl, c)]
    IN \E W \in SUBSET CommitIds :
         /\ IsWindow(W, commitCount)
         /\ \A p \in projects :
              /\ \E e \in Entries : e.name = p.name
              /\ Entry(p.name).affected_count =
                   Cardinality({c \in W : p.name \in aff[c]})

\* one commit touches core and mid, app depends on both: app counts once
C6_Witness ==
  /\ pc = "done"
  /\ project_dependencies = {Edge("app", "core"), Edge("app", "mid")}
  /\ Cardinality(CommitIds) = 1
  /\ \E c \in CommitIds : TouchedProjects(c) = {"core", "mid"}
  /\ Entry("app").affected_count = 1
  /\ Entry("core").affected_count = 1

MetricFields == {"touched_count", "dependent_count", "load", "affected_count"}

\* C7: the result has exactly one entry per project of the store, every
\* entry carries the four metrics as numbers, and a project untouched in
\* the window has touched_count 0 and load 0.
C7_EveryProjectAllMetrics ==
  pc = "done" =>
    /\ \A p \in projects :
         Cardinality({i \in 1..Len(metrics) : metrics[i].name = p.name}) = 1
    /\ Len(metrics) = Cardinality(projects)
    /\ \A e \in Entries :
         /\ MetricFields \subseteq DOMAIN e
         /\ \A f \in MetricFields : e[f] \in Nat
    /\ \E W \in SUBSET CommitIds :
         /\ IsWindow(W, commitCount)
         /\ \A e \in Entries :
              (\A c \in W : ~Touches(c, e.name)) =>
                (e.touched_count = 0 /\ e.load = 0)

----------------------------------------------------------------------------
(* Estimated load, stated independently of the queries *)

\* some path of F is touched by the commit
TouchesAny(c, F) == \E tf \in touched_files : tf.commit_id = c /\ tf.file_path \in F

\* the projects owning a file that imports some path of F
Importers(F) ==
  {p.name : p \in {q \in projects :
     \E fd \in file_dependencies, pf \in project_files :
       /\ fd.depends_on_file \in F
       /\ pf.file_path = fd.file_path
       /\ pf.project_id = q.id}}

\* the importers together with all their transitive dependents
WithTransitive(cl, D) == D \cup UNION {DependentsIn(cl, p) : p \in D}

\* C8: getEstimatedLoad(F, N) is the number of window commits touching a
\* path of F times the number of projects importing a path of F or
\* transitively depending on such a project; 0 for an empty F and for an
\* F without dependents.
C8_EstimatedLoad ==
  pc = "done" =>
    LET F == SeqRange(filePaths)
        cl == Closure(EdgePairs(project_dependencies))
    IN /\ \E W \in SUBSET CommitIds :
            /\ IsWindow(W, commitCount)
            /\ estimatedLoad =
                 Cardinality({c \in W : TouchesAny(c, F)})
                   * Cardinality(WithTransitive(cl, Importers(F)))
       /\ (F = {} \/ Importers(F) = {}) => estimatedLoad = 0

\* the list <<a.ts, c.ts>> is touched by both commits, a.ts is imported by
\* app (through c.ts), and core and mid depend on app transitively
C8_Witness ==
  /\ pc = "done"
  /\ filePaths = <<"a.ts", "c.ts">>
  /\ commitCount = 2
  /\ file_dependencies = {FileDep("c.ts", "core", "a.ts")}
  /\ project_dependencies = {Edge("core", "app"), Edge("mid", "core")}
  /\ touched_files = {Touch(1, "a.ts"), Touch(2, "c.ts")}
  /\ estimatedLoad = 6

----------------------------------------------------------------------------
(* Split optimizer properties *)

\* C9: getSuggestedFileSplit terminates: the tracked total is a
\* non-negative integer that every applied move lowers by at least one, so
\* a run applies at most as many moves as the total of its initial split.
C9_SplitTerminates ==
  /\ totalLoad >= 0
  /\ moves + totalLoad <= initialTotalLoad

\* a run that returned after two passes that moved a file
C9_Witness ==
  /\ pc = "done"
  /\ moves = 2
  /\ Len(filePaths) = 4

\* C10: the total never increases from one pass to the next, a pass that
\* moves a file lowers it strictly, the tracked total is loadA + loadB, and
\* the total at return is at most that of the initial random split.
C10_TotalNonIncreasing ==
  [][pc = "search" =>
       /\ totalLoad' <= totalLoad
       /\ (<<groupA, groupB>>' # <<groupA, groupB>> => totalLoad' < totalLoad)
       /\ totalLoad' = loadA' + loadB'
       /\ (pc' = "done" => totalLoad' <= initialTotalLoad')]_vars

\* two moves were applied before the return
C10_Witness ==
  /\ pc = "done"
  /\ Len(groupA) + Len(groupB) = 4
  /\ moves = 2
  /\ initialTotalLoad - totalLoad >= 3
  /\ suggestedSplit[2] # <<>>
  /\ suggestedSplit[1] # <<>>

\* the list s without its i-th entry
RemoveAt(s, i) == SubSeq(s, 1, i - 1) \o SubSeq(s, i + 1, Len(s))

\* total estimated load of two groups over the window of the call
GroupsTotal(G1, G2) ==
  EstimatedLoad(G1, commitCount) + EstimatedLoad(G2, commitCount)

\* C11: when getSuggestedFileSplit returns (G1, G2), the files without
\* dependents placed in G1, no move of a single file from G1 to G2 or from
\* G2 to G1 gives a strictly smaller getEstimatedLoad(G1) + getEstimatedLoad(G2).
C11_LocalOptimum ==
  pc = "done" =>
    LET G1 == suggestedSplit[1]
        G2 == suggestedSplit[2]
        total == GroupsTotal(G1, G2)
    IN /\ \A i \in 1..Len(G1) :
            GroupsTotal(RemoveAt(G1, i), Append(G2, G1[i])) >= total
       /\ \A i \in 1..Len(G2) :
            GroupsTotal(Append(G1, G2[i]), RemoveAt(G2, i)) >= total

\* C12: every input file without a dependent project is in the first
\* returned group and not in the second; when no input file has a
\* dependent the result is (all input files, empty list).
C12_WithoutDepsInFirst ==
  pc = "done" =>
    LET noDeps == {f \in SeqRange(filePaths) : Importers({f}) = {}}
    IN /\ noDeps \subseteq SeqRange(suggestedSplit[1])
       /\ noDeps \cap SeqRange(suggestedSplit[2]) = {}
       /\ noDeps = SeqRange(filePaths) => suggestedSplit = <<filePaths, <<>>>>

\* a searched run: b.ts has no dependent and is returned in the first group,
\* after the files the search left there, while the second group is not empty
C12_Witness ==
  /\ pc = "done"
  /\ Len(filePaths) = 4
  /\ Importers({"b.ts"}) = {}
  /\ Importers({"a.ts"}) # {}
  /\ groupA # <<>>
  /\ groupB # <<>>
  /\ "b.ts" \in SeqRange(suggestedSplit[1])
  /\ suggestedSplit[1] # filePaths

\* C13: a file without a dependent project adds nothing to the load of a
\* list: getEstimatedLoad(G + [f], N) = getEstimatedLoad(G, N).
C13_NoDepsNoLoad ==
  pc = "done" =>
    \A k \in 1..Len(filePaths) :
      Importers({filePaths[k]}) = {} =>
        estimatedLoad = EstimatedLoad(RemoveAt(filePaths, k), commitCount)

----------------------------------------------------------------------------
(* Commit ingestor properties *)

\* what a touched_files row says, its rowid left out
TouchedFacts(T) == {<<r.commit_id, r.file_path, r.change_type>> : r \in T}

\* C14: ingesting the same log a second time, on the same or on a new
\* connection, leaves the rows of git_commits and the number and content of
\* the touched_files rows unchanged, each still referring to its commit.
C14_ReingestIdempotent ==
  (pc = "synced" /\ ingestions = 2) =>
    /\ git_commits = firstCommits
    /\ Cardinality(touched_files) = Cardinality(firstTouched)
    /\ TouchedFacts(touched_files) = TouchedFacts(firstTouched)

\* C15: insertCommit(commit) returns the id of the git_commits row whose
\* hash is commit.hash, also when the hash was already present.
C15_InsertCommitId ==
  commitId # <<>> =>
    \E r \in git_commits : r.hash = commitId[1].hash /\ r.id = commitId[1].id

\* a well-formed header line: hash|author|date|subject
IsHeader(line) == Includes(line, "|") /\ Len(Split(line, "|")) = 4

\* the positions after header i up to the next line with a "|" or the end
BlockOf(L, i) ==
  {j \in (i + 1)..Len(L) : \A k \in (i + 1)..j : ~Includes(L[k], "|")}

ChangesOf(L, i) == {j \in BlockOf(L, i) : IsChangeLine(L[j])}

\* C16: a commit whose header is followed by zero change lines is still
\* recorded as a git_commits row, wherever it stands in the log.
C16_EmptyCommitRecorded ==
  pc = "synced" =>
    LET L == NonBlankLines(log)
    IN \A i \in 1..Len(L) :
         (IsHeader(L[i]) /\ ChangesOf(L, i) = {}) =>
           \E r \in git_commits : r.hash = ParseHeader(L[i]).hash

\* C17: a malformed line raises no error and ingestion continues: the sync
\* never fails and, after the first ingestion, every well-formed commit that
\* has change lines is stored with each of its touched files.
C17_MalformedSkipped ==
  /\ pc # "failed"
  /\ (pc = "synced" /\ ingestions = 1) =>
       LET L == NonBlankLines(log)
       IN \A i \in 1..Len(L) :
            (IsHeader(L[i]) /\ ChangesOf(L, i) # {}) =>
              \E r \in git_commits :
                /\ r.hash = ParseHeader(L[i]).hash
                /\ \A j \in ChangesOf(L, i) :
                     \E t \in touched_files :
                       /\ t.commit_id = r.id
                       /\ t.file_path = ParseChange(L[j]).filePath

\* C28: every touched_files row the ingestion has written belongs to a
\* change line of the log and carries the id of the git_commits row whose
\* hash is that of the header most recently preceding that line; it is never
\* attached to another commit or to an id that no commit has.
C28_TouchedAttachedToHeader ==
  LET L == NonBlankLines(log)
  IN \A t \in touched_files :
       \E r \in git_commits :
         /\ r.id = t.commit_id
         /\ \E i \in 1..Len(L) :
              /\ IsHeader(L[i])
              /\ ParseHeader(L[i]).hash = r.hash
              /\ \E j \in ChangesOf(L, i) :
                   ParseChange(L[j]).filePath = t.file_path

----------------------------------------------------------------------------
(* Dependency sync properties *)

\* C18: when syncAllProjectDependencies fails after BEGIN, the transaction is
\* rolled back: no transaction stays open on the connection and
\* project_dependencies, committed and as the connection sees it, is what it
\* was before the call.
C18_ProjectSyncAllOrNothing ==
  (syncOp = "project" /\ wpc = "rejected" /\ toInsert = {}) =>
    /\ txn = <<>>
    /\ View.project_dependencies = preSync.project_dependencies
    /\ project_dependencies = preSync.project_dependencies

\* C19: during and after syncFileDependenciesFromNx the committed
\* file_dependencies is the previous relation or the new one, never the
\* cleared table in between, and after a failed sync it is the previous one.
C19_FileSyncAtomic ==
  syncOp = "file" =>
    /\ file_dependencies \in {preSync.file_dependencies, newRows}
    /\ wpc = "rejected" => file_dependencies = preSync.file_dependencies

\* C20: a traversal that runs while a sync commits returns the dependents
\* computed on one committed state of project_dependencies (before or after
\* the sync), never on a mix.
C20_NoTornRead ==
  pc = "done" =>
    \E edges \in committedStores :
      result = ReachDependents(edges, projectName)

\* the input names no file twice
DistinctPaths(fps) == Cardinality(SeqRange(fps)) = Len(fps)

\* the lists a and b share no file and together hold exactly the files of S,
\* each once
PartitionOf(a, b, S) ==
  /\ SeqRange(a) \cap SeqRange(b) = {}
  /\ SeqRange(a) \cup SeqRange(b) = S
  /\ DistinctPaths(a \o b)

\* C27: for an input list of distinct paths and every random initial
\* assignment, at every iteration of the search groupA and groupB are
\* disjoint and together hold exactly the input files that some project
\* imports, and the two returned groups are disjoint and together hold
\* exactly the input files
C27_GroupsPartition ==
  DistinctPaths(filePaths) =>
    /\ pc = "search" =>
         PartitionOf(groupA, groupB,
                     {f \in SeqRange(filePaths) : Importers({f}) # {}})
    /\ pc = "done" /\ suggestedSplit # <<>> =>
         PartitionOf(suggestedSplit[1], suggestedSplit[2], SeqRange(filePaths))

\* a returned split of distinct paths after a move, with a file no project
\* imports and a non-empty second group
C27_Witness ==
  /\ pc = "done"
  /\ DistinctPaths(filePaths)
  /\ moves > 0
  /\ filesWithoutDeps # <<>>
  /\ suggestedSplit[2] # <<>>

----------------------------------------------------------------------------
(* Parallel lookup properties *)

\* C21: on an unchanging store the value of getAllProjectsMetrics, of
\* getEstimatedLoad and of the two loads of a candidate move is the same
\* for every interleaving and completion order of the parallel lookups:
\* it is the value the calls give when run one at a time
C21_OrderIndependent ==
  pc = "done" =>
    /\ parOp = "metrics" => metrics = AllProjectsMetrics(commitCount)
    /\ parOp = "load" => estimatedLoad = EstimatedLoad(filePaths, commitCount)
    /\ parOp = "candidate" =>
         /\ locals.candidateLoadA = EstimatedLoad(candidate[1], commitCount)
         /\ locals.candidateLoadB = EstimatedLoad(candidate[2], commitCount)

\* a metrics call whose lookup of mid settled before the lookup of core,
\* both with dependents
C21_Witness ==
  /\ pc = "done"
  /\ parOp = "metrics"
  /\ Len(order) >= 2
  /\ order[1] = "mid"
  /\ order[2] = "core"
  /\ transitiveDependents["mid"] # {}
  /\ transitiveDependents["core"] # transitiveDependents["mid"]

\* C22: a traversal that hit a failing query returns the empty list, not
\* what it had collected, and the metrics / load call around it still
\* returns: dependent_count is 0 for a project whose lookup failed, and the
\* number of its transitive dependents for every other looked-up project;
\* the load counts the direct dependents and the dependents of the lookups
\* that did not fail
C22_FailedLookupIsEmpty ==
  /\ pc = "done" /\ parOp = "none" /\ failedLookups # {} => result = {}
  /\ pc = "lookups" =>
       \A p \in DOMAIN lookups :
         /\ p \in failedLookups => lookups[p].result = {}
         /\ lookups[p].state = "settled" => transitiveDependents[p] = lookups[p].result
  /\ pc = "done" /\ parOp = "metrics" =>
       \A i \in 1..Len(metrics) :
         LET m == metrics[i] IN
           /\ m.name \in failedLookups => m.dependent_count = 0
           /\ m.name \in DOMAIN lookups \ failedLookups =>
                m.dependent_count =
                  Cardinality(ReachDependents(project_dependencies, m.name))
  /\ pc = "done" /\ parOp = "load" =>
       LET direct == DirectDependents(ProjectDependencyMapForFiles(filePaths))
       IN estimatedLoad =
            FilesTouchedCount(filePaths, commitCount)
              * Cardinality(direct \cup
                  UNION {ReachDependents(project_dependencies, p) :
                           p \in direct \ failedLookups})

\* a metrics call returned although the lookup of core failed after its
\* first batch, while the lookup of mid found a dependent
C22_Witness ==
  /\ pc = "done"
  /\ parOp = "metrics"
  /\ failedLookups = {"core"}
  /\ Cardinality(lookups["core"].visited) > 1
  /\ "mid" \in DOMAIN lookups
  /\ \E i \in 1..Len(metrics) :
       metrics[i].name = "mid" /\ metrics[i].dependent_count > 0

\* C25: no step of getAllProjectsMetrics, getEstimatedLoad,
\* getProjectDependencyMapForFiles, getProjectDependents (or
\* getProjectDependencies) or getSuggestedFileSplit changes a row of any
\* relation, whatever the input and whether or not a lookup failed
C25_ReadersFrame == [][UNCHANGED storeVars]_vars

\* a load call that returned a positive load although a lookup failed
C25_Witness ==
  /\ pc = "done"
  /\ parOp = "load"
  /\ failedLookups # {}
  /\ estimatedLoad > 0

\* C29: for every project the touchedCount, load and affectedCount that
\* list-projects derives from getAllProjectsTouchedCount(N),
\* getAllProjectsLoad(N) and getAllProjectsAffectedCount(N), an absent
\* project counting 0, are the touched_count, load and affected_count that
\* getAllProjectsMetrics(N) gives for it
C29_ListMatchesMetrics ==
  pc = "done" /\ parOp = "list-projects" =>
    LET t == locals.sortedProjects
        ms == AllProjectsMetrics(commitCount)
    IN /\ {t[i].name : i \in 1..Len(t)} = {ms[i].name : i \in 1..Len(ms)}
       /\ Len(t) = Len(ms)
       /\ \A i \in 1..Len(t), k \in 1..Len(ms) :
            t[i].name = ms[k].name =>
              /\ t[i].touchedCount = ms[k].touched_count
              /\ t[i].load = ms[k].load
              /\ t[i].affectedCount = ms[k].affected_count

\* a listing with a project touched once whose load is positive and whose
\* affected count exceeds its touched count, next to an untouched project
C29_Witness ==
  /\ pc = "done"
  /\ parOp = "list-projects"
  /\ \E i, k \in 1..Len(locals.sortedProjects) :
       LET r == locals.sortedProjects[i]
           u == locals.sortedProjects[k]
       IN /\ r.load > 0
          /\ r.affectedCount > r.touchedCount
          /\ r.touchedCount > 0
          /\ u.touchedCount = 0
          /\ u.affectedCount > 0

----------------------------------------------------------------------------
(* Project store and command line properties *)

\* C23: for a project name that is not in the store, addFileToProject
\* rejects with 'Project "<name>" not found', getProjectFiles returns the
\* empty list, removeFileFromProject, updateProject and deleteProject return
\* false, and none of them changes a row of projects or project_files
C23_AbsentProject ==
  (returned # <<>> /\ returned[1].absent /\ returned[1].op # "createProject") =>
    LET r == returned[1] IN
      /\ r.op = "addFileToProject" => r.rejected /\ r.value = NotFound(r.name)
      /\ r.op = "getProjectFiles" => ~r.rejected /\ r.value = <<>>
      /\ r.op \in {"removeFileFromProject", "updateProject", "deleteProject"} =>
           ~r.rejected /\ r.value = FALSE
      /\ projects = r.before.projects
      /\ project_files = r.before.project_files

\* updateProject was called for a name that is not in a store that holds
\* another project and a file of it
C23_Witness ==
  /\ returned # <<>>
  /\ returned[1].absent
  /\ returned[1].op = "updateProject"
  /\ projects # {}
  /\ project_files # {}

\* C24: once deleteProject has deleted a project, no project_files row of
\* it remains: every row of project_files refers to a project that is in
\* the store (ids are never given twice, so an id without a project is the
\* id of a deleted one), whatever is called afterwards
C24_DeleteCascades ==
  \A pf \in project_files : \E p \in projects : p.id = pf.project_id

\* the text is a positive integer in decimal digits
IsPositiveInteger(text) ==
  /\ text # <<>>
  /\ \A i \in 1..Len(text) : IsDigit(text[i])
  /\ DecimalValue(text) > 0

\* C26: runCLI returns 1 and reports the matching message when no command
\* is given, the command is unknown, a required argument is missing, the
\* commit count or limit is not a positive integer, or add-file names a
\* project that is not in the store; and the connection it opened is closed
\* when it returns
C26_CliErrors ==
  cli.phase = "returned" =>
    LET a == cli.args
        command == IF a = <<>> THEN "" ELSE a[1]
        exits(message) == cli.exitCode = 1 /\ cli.message = message
    IN /\ cli.connection = "none" => exits("Usage")
       /\ cli.connection # "none" /\ command \notin Commands =>
            exits("Unknown command")
       /\ command \in NameCommands /\ Len(a) < 2 =>
            exits("Project name is required")
       /\ command \in FileCommands /\ Len(a) < 3 =>
            exits("Project name and file path are required")
       /\ command \in CountCommands /\ Len(a) >= 2
             /\ ~IsPositiveInteger(a[2]) =>
            \/ exits("Commit count must be a positive number")
            \/ exits("Limit must be a positive number")
       /\ command = "add-file" /\ Len(a) = 3 /\ cli.absent =>
            exits(NotFound(a[2]))
       /\ cli.connection # "open"

\* C30: in every command the argument checks come before every write: an
\* invocation that ends in a validation error has inserted, changed or
\* deleted no row
C30_ValidationBeforeWrites ==
  (cli.phase \in {"finally", "returned"} /\ cli.validation) => cli.changes = 0

====
